---- MODULE Spec2Model ----
(***************************************************************************)
(* Model of the Yandex Music -> Tidal playlist synchroniser:               *)
(* SyncService.sync_playlist (src/syncer/service.py) driving TidalClient   *)
(* (src/syncer/clients/tidal_client.py) through the retry wrapper          *)
(* (src/syncer/retry.py), reviewed by select_fuzzy_matches (src/sync.py).  *)
(*                                                                         *)
(* The run modelled is a call of sync_playlist with like_tracks and         *)
(* cleanup_deleted left at their default, False.                           *)
(*                                                                         *)
(* A text is a sequence of one-character strings, so that normalisation,   *)
(* substring tests and word sets are computed, not assumed.  A Track       *)
(* object is identified by its position in playlist.tracks.                *)
(***************************************************************************)
EXTENDS Integers, Sequences, FiniteSets, TLC

(***************************************************************************)
(* Bounds of the model.                                                    *)
(***************************************************************************)
MaxTracks == 2      \* longest source playlist
MaxDest   == 1      \* longest destination listing at the start of a run
MaxCands  == 2      \* longest candidate list one search call returns
MaxListing == 2     \* longest destination listing of a run with favourites and cleanup
MaxSource  == 1     \* longest source playlist of a run with favourites and cleanup
MaxText    == 3     \* longest text given to a text function on its own

(***************************************************************************)
(* Program constants.                                                      *)
(***************************************************************************)
max_attempts           == 3    \* @retry_with_backoff(max_attempts=3) on _search_with_query
DEFAULT_SEARCH_WORKERS == 5    \* the default of sync_playlist's workers argument
base_delay             == 1000   \* RETRY_BASE_DELAY_SEC = 1.0, in milliseconds
max_delay              == 10000  \* RETRY_MAX_DELAY_SEC = 10.0, in milliseconds

(***************************************************************************)
(* The state: the provider's side, the client's cache, the arguments and   *)
(* local variables of sync_playlist, and history variables.                *)
(***************************************************************************)
VARIABLES
  playlists,         \* provider: the listings of the user's playlists named target_name
  cache,             \* TidalClient._playlist_tracks_cache: playlist -> listing
  playlist,          \* argument: playlist.tracks, the source Track objects
  exact_only,        \* argument
  fuzzy_selector,    \* argument: TRUE when select_fuzzy_matches is supplied
  pc,                \* position of sync_playlist
  tidal_playlist,    \* local: index into playlists, 0 for None
  existing_keys,     \* local
  is_delta,          \* local
  tracks_to_sync,    \* local: the Track objects to search, by position in playlist
  skipped,           \* local
  futures,           \* _search_parallel: the state of each submitted search_track
  results,           \* _search_parallel: the pairs collected so far, in completion order
  search_results,    \* local: what _search_parallel returned
  found_track_ids,   \* local
  fuzzy_matches,     \* local
  not_found_tracks,  \* local
  stats,             \* local: MatchStats
  result,            \* the SyncResult returned, once returned
  raised,            \* the call that raised out of sync_playlist, "" if none
  dest0,             \* history: the destination listing when the run started
  created,           \* history: the create_playlist calls that returned
  listing_fetches,   \* history: the playlist.tracks() calls that returned since the last change
  fetch_failed,      \* history: playlist.tracks() raised
  find_failed,       \* history: session.user.playlists() raised
  batch,             \* history: the playlist.add call issued, if any
  add_failed,        \* history: playlist.add raised
  menu_result,       \* history: what the review menu returned, if shown
  like_tracks,       \* argument
  cleanup_deleted,   \* argument
  cleanup_selector,  \* argument: TRUE when select_tracks_to_remove is supplied
  favorites,         \* provider: the ids of the user's favourite tracks
  liked_cache,       \* TidalClient._liked_tracks_cache
  liked_count,       \* local
  removed_count,     \* local
  favorites0,        \* history: the favourites when the run started
  liked_fetches,     \* history: the number of session.user.favorites.tracks calls
  like_call,         \* history: the like_tracks call and its add_track calls, if any
  cleanup_call,      \* history: the listing and the orphans of the cleanup, if any
  cleanup_menu,      \* history: what the removal menu returned, if shown
  removal_calls,     \* history: the playlist.remove_by_index calls, in call order
  func_script,       \* a call of a wrapped function: what func does on each of its calls
  retry_attempt,     \* retry wrapper: the loop variable attempt
  func_calls,        \* history: the number of calls of func the wrapper has made
  wrapper_return,    \* what the wrapper returned, once returned
  match_call,        \* a call of _search_with_query: track, candidate list, exact_only
  match_return,      \* what the matching passes returned, once returned
  sleeps,            \* history: the time.sleep calls of the wrapper, in call order
  text_call,         \* a call of a text function: its arguments
  text_return,       \* what the text function returned, once returned
  rerun              \* sync_playlist run twice: the run, what the provider and
                     \* the reviewer answer in both runs, the first run's outcome

vars ==
  << playlists, cache, playlist, exact_only, fuzzy_selector, pc, tidal_playlist,
     existing_keys, is_delta, tracks_to_sync, skipped, futures, results,
     search_results, found_track_ids, fuzzy_matches, not_found_tracks, stats,
     result, raised, dest0, created, listing_fetches, fetch_failed, find_failed, batch, add_failed,
     menu_result, like_tracks, cleanup_deleted, cleanup_selector, favorites,
     liked_cache, liked_count, removed_count, favorites0, liked_fetches,
     like_call, cleanup_call, cleanup_menu, removal_calls, func_script,
     retry_attempt, func_calls, wrapper_return, match_call, match_return,
     sleeps, text_call, text_return, rerun >>

\* The provider's playlists, the client's cache and sync_playlist up to its add.
run_vars ==
  << playlists, cache, playlist, exact_only, fuzzy_selector, pc, tidal_playlist,
     existing_keys, is_delta, tracks_to_sync, skipped, futures, results,
     search_results, found_track_ids, fuzzy_matches, not_found_tracks, stats,
     result, raised, dest0, created, listing_fetches, fetch_failed, find_failed, batch, add_failed,
     menu_result >>

\* The arguments, the provider state and the history of the favourites step and
\* of the cleanup step (sync_playlist, lines 227-249).
tail_vars ==
  << like_tracks, cleanup_deleted, cleanup_selector, favorites, liked_cache,
     liked_count, removed_count, favorites0, liked_fetches, like_call,
     cleanup_call, cleanup_menu, removal_calls >>

\* A call of the retry wrapper, of the matching passes or of a text function,
\* on its own, and the record of sync_playlist being run twice.
call_vars ==
  << func_script, retry_attempt, func_calls, wrapper_return, match_call,
     match_return, sleeps, text_call, text_return, rerun >>

(***************************************************************************)
(* Texts.                                                                  *)
(***************************************************************************)
\* str.lower() on the characters that occur in the model's texts.
lower(c) ==
  CASE c = "A" -> "a"
    [] c = "B" -> "b"
    [] c = "L" -> "l"
    [] c = "M" -> "m"
    [] c = "X" -> "x"
    [] OTHER   -> c

\* \s of the regular expressions: the model's only whitespace is the blank.
IsSpace(c) == c = " "

\* \w of the regular expressions: letters, digits and the underscore.
IsWord(c) ==
  c \in {"a", "b", "c", "d", "e", "f", "g", "h", "i", "j", "k", "l", "m", "n",
         "o", "p", "q", "r", "s", "t", "u", "v", "w", "x", "y", "z",
         "A", "B", "L", "M", "X", "0", "1", "_"}

\* str.split(): the maximal runs of non-whitespace characters, in order.
RECURSIVE SplitFrom(_, _, _)
SplitFrom(text, i, word) ==
  IF i > Len(text)
  THEN IF word = <<>> THEN <<>> ELSE <<word>>
  ELSE IF IsSpace(text[i])
       THEN IF word = <<>>
            THEN SplitFrom(text, i + 1, <<>>)
            ELSE <<word>> \o SplitFrom(text, i + 1, <<>>)
       ELSE SplitFrom(text, i + 1, Append(word, text[i]))

split(text) == SplitFrom(text, 1, <<>>)

\* " ".join(words)
RECURSIVE join(_)
join(words) ==
  IF words = <<>> THEN <<>>
  ELSE IF Len(words) = 1 THEN words[1]
  ELSE words[1] \o <<" ">> \o join(Tail(words))

\* re.sub(r"[^\w\s]", " ", text.lower())
SubNonWord(text) ==
  [i \in 1..Len(text) |->
     LET c == lower(text[i]) IN IF IsWord(c) \/ IsSpace(c) THEN c ELSE " "]

\* A faulty variant: the blanks are collapsed before the punctuation is replaced.
normalize_SubLast(text) == SubNonWord(join(split(text)))

\* tidal_client.normalize: lower-case, punctuation to blanks, blanks collapsed
\* and trimmed.
normalize(text) == join(split(SubNonWord(text)))

\* service.normalize_for_compare: the same function, written a second time.
normalize_for_compare(text) == join(split(SubNonWord(text)))

\* make_track_key: f"{normalize(artist)}:{normalize(title)}"
make_track_key(artist, title) == normalize(artist) \o <<":">> \o normalize(title)

\* Python's  a in b  on strings: a occurs in b as a contiguous substring; the
\* empty string occurs in every string.
IsSubstring(a, b) ==
  \E i \in 0..(Len(b) - Len(a)) : SubSeq(b, i + 1, i + Len(a)) = a

\* set(text.split())
WordSet(text) == LET w == split(text) IN {w[i] : i \in 1..Len(w)}

(***************************************************************************)
(* clean_for_search (tidal_client.py): used only to build search queries.  *)
(***************************************************************************)
IsOpen(c)  == c \in {"(", "["}
IsClose(c) == c \in {")", "]"}

\* The position of the first non-blank character at or after i (Len + 1 if none).
RECURSIVE SkipSpaces(_, _)
SkipSpaces(text, i) ==
  IF i <= Len(text) /\ IsSpace(text[i]) THEN SkipSpaces(text, i + 1) ELSE i

\* re.sub(r"\s*[\(\[][^\)\]]*[\)\]]", "", text): every leftmost match (blanks,
\* an opening bracket, anything up to the first closing bracket) is deleted.
RECURSIVE StripBrackets(_)
StripBrackets(text) ==
  IF text = <<>> THEN <<>>
  ELSE LET b == SkipSpaces(text, 1)
           closes == {j \in (b + 1)..Len(text) : IsClose(text[j])}
       IN IF b <= Len(text) /\ IsOpen(text[b]) /\ closes # {}
          THEN LET e == CHOOSE j \in closes : \A k \in closes : j <= k
               IN StripBrackets(SubSeq(text, e + 1, Len(text)))
          ELSE <<text[1]>> \o StripBrackets(Tail(text))

\* The suffix patterns, in the order of the source.  Each is a list of literals,
\* every literal preceded by \s*, closed by .*$ (any) or by \s*$ (not any):
\*   \s*-\s*single\s*version.*$  \s*-\s*remaster.*$  \s*-\s*mono\s*$  \s*-\s*stereo\s*$
\*   \s*-\s*live.*$  \s*-\s*acoustic.*$  \s*-\s*bonus\s*track.*$  \s*-\s*deluxe.*$
\*   \s*feat\..*$  \s*ft\..*$
patterns ==
  <<
    [lits |-> <<<<"-">>, <<"s", "i", "n", "g", "l", "e">>, <<"v", "e", "r", "s", "i", "o", "n">>>>, any |-> TRUE],
    [lits |-> <<<<"-">>, <<"r", "e", "m", "a", "s", "t", "e", "r">>>>, any |-> TRUE],
    [lits |-> <<<<"-">>, <<"m", "o", "n", "o">>>>, any |-> FALSE],
    [lits |-> <<<<"-">>, <<"s", "t", "e", "r", "e", "o">>>>, any |-> FALSE],
    [lits |-> <<<<"-">>, <<"l", "i", "v", "e">>>>, any |-> TRUE],
    [lits |-> <<<<"-">>, <<"a", "c", "o", "u", "s", "t", "i", "c">>>>, any |-> TRUE],
    [lits |-> <<<<"-">>, <<"b", "o", "n", "u", "s">>, <<"t", "r", "a", "c", "k">>>>, any |-> TRUE],
    [lits |-> <<<<"-">>, <<"d", "e", "l", "u", "x", "e">>>>, any |-> TRUE],
    [lits |-> <<<<"f", "e", "a", "t", ".">>>>, any |-> TRUE],
    [lits |-> <<<<"f", "t", ".">>>>, any |-> TRUE]
  >>

\* The literal occurs at position i of the text (re.IGNORECASE).
LitAt(text, i, literal) ==
  /\ i + Len(literal) - 1 <= Len(text)
  /\ \A k \in 1..Len(literal) : lower(text[i + k - 1]) = lower(literal[k])

\* The position after a match of the literals from position i, 0 if none.
RECURSIVE MatchLits(_, _, _)
MatchLits(text, i, lits) ==
  IF lits = <<>> THEN i
  ELSE LET j == SkipSpaces(text, i)
       IN IF LitAt(text, j, Head(lits))
          THEN MatchLits(text, j + Len(Head(lits)), Tail(lits))
          ELSE 0

MatchesAt(text, s, p) ==
  LET e == MatchLits(text, s, p.lits)
  IN e # 0 /\ (p.any \/ SkipSpaces(text, e) > Len(text))

\* re.sub(pattern, "", text, flags=re.IGNORECASE): the leftmost match runs to
\* the end of the text, so the text is cut where it starts.
RemoveSuffix(text, p) ==
  LET starts == {s \in 1..Len(text) : MatchesAt(text, s, p)}
  IN IF starts = {} THEN text
     ELSE SubSeq(text, 1, (CHOOSE s \in starts : \A u \in starts : s <= u) - 1)

RECURSIVE RemoveSuffixes(_, _)
RemoveSuffixes(text, k) ==
  IF k > Len(patterns) THEN text
  ELSE RemoveSuffixes(RemoveSuffix(text, patterns[k]), k + 1)

\* str.strip()
RECURSIVE strip(_)
strip(text) ==
  IF text = <<>> THEN <<>>
  ELSE IF IsSpace(text[1]) THEN strip(Tail(text))
  ELSE IF IsSpace(text[Len(text)]) THEN strip(SubSeq(text, 1, Len(text) - 1))
  ELSE text

clean_for_search(text) == strip(RemoveSuffixes(StripBrackets(text), 1))

\* "Remove duplicates while preserving order" (empty strings dropped).
RECURSIVE Unique(_, _)
Unique(strategies, seen) ==
  IF strategies = <<>> THEN <<>>
  ELSE LET s == Head(strategies)
       IN IF s # <<>> /\ s \notin seen
          THEN <<s>> \o Unique(Tail(strategies), seen \cup {s})
          ELSE Unique(Tail(strategies), seen)

\* The queries search_track tries for a track, in order.
unique_strategies(track) ==
  LET clean_artist == clean_for_search(track.artist)
      clean_title  == clean_for_search(track.title)
      clean_title_words == IF clean_title # <<>> THEN split(clean_title) ELSE <<>>
      strategies ==
        << track.artist \o <<" ">> \o track.title,
           clean_artist \o <<" ">> \o clean_title,
           track.title,
           clean_title >>
        \o (IF clean_artist # <<>> /\ clean_title_words # <<>>
            THEN << clean_artist \o <<" ">> \o clean_title_words[1] >>
            ELSE <<>>)
  IN Unique(strategies, {})

(***************************************************************************)
(* The matcher (tidal_client.py) and the quality grade (service.py).       *)
(***************************************************************************)
\* The value of an Optional[SearchResult] that is None.
None == [track |-> 0, match_type |-> "None"]

\* words_match: at least WORDS_MATCH_THRESHOLD (0.5) of the needle's words are
\* words of the haystack; len(matches) >= len(needle_words) * 0.5.
words_match(needle, haystack) ==
  LET needle_words   == WordSet(normalize(needle))
      haystack_words == WordSet(normalize(haystack))
  IN /\ needle_words # {}
     /\ 2 * Cardinality(needle_words \cap haystack_words) >= Cardinality(needle_words)

\* result.artist.name if result.artist else ""
result_artist(cand) == IF cand.has_artist THEN cand.artist ELSE <<>>

\* First pass of _search_with_query: substring relation on artist and on title.
ExactMatch(track, cand) ==
  LET artist_match ==
        \/ IsSubstring(normalize(track.artist), normalize(result_artist(cand)))
        \/ IsSubstring(normalize(result_artist(cand)), normalize(track.artist))
      title_match ==
        \/ IsSubstring(normalize(track.title), normalize(cand.name))
        \/ IsSubstring(normalize(cand.name), normalize(track.title))
  IN artist_match /\ title_match

\* Second pass: word overlap on title and on artist.
FuzzyMatchPass(track, cand) ==
  words_match(track.title, cand.name) /\ words_match(track.artist, result_artist(cand))

\* Third pass: the normalized titles are equal.
TitleOnlyMatch(track, cand) == normalize(track.title) = normalize(cand.name)

\* The first candidate of the list, in list order, that a pass accepts (0 if none).
FirstMatch(track, cands, Pass(_, _)) ==
  LET hits == {i \in 1..Len(cands) : Pass(track, cands[i])}
  IN IF hits = {} THEN 0 ELSE CHOOSE i \in hits : \A j \in hits : i <= j

\* A faulty variant: the candidates are tried one by one, and the first that any
\* pass accepts is returned.
search_with_query_CandidateFirst(track, cands, exactOnly) ==
  LET accepted(i) ==
        \/ ExactMatch(track, cands[i])
        \/ ~exactOnly /\ FuzzyMatchPass(track, cands[i])
        \/ ~exactOnly /\ TitleOnlyMatch(track, cands[i])
      hits == {i \in 1..Len(cands) : accepted(i)}
  IN IF hits = {} THEN None
     ELSE LET i == CHOOSE h \in hits : \A j \in hits : h <= j
          IN [ track      |-> cands[i].id,
               match_type |-> IF ExactMatch(track, cands[i]) THEN "EXACT"
                              ELSE IF FuzzyMatchPass(track, cands[i]) THEN "FUZZY"
                              ELSE "TITLE_ONLY" ]

\* A faulty variant: the fuzzy and the title passes run in exact_only mode too.
search_with_query_IgnoresExactOnly(track, cands, exactOnly) ==
  IF cands = <<>> THEN None
  ELSE LET e == FirstMatch(track, cands, ExactMatch)
           f == FirstMatch(track, cands, FuzzyMatchPass)
           t == FirstMatch(track, cands, TitleOnlyMatch)
       IN IF e # 0 THEN [track |-> cands[e].id, match_type |-> "EXACT"]
          ELSE IF f # 0 THEN [track |-> cands[f].id, match_type |-> "FUZZY"]
          ELSE IF t # 0 THEN [track |-> cands[t].id, match_type |-> "TITLE_ONLY"]
          ELSE None

\* _search_with_query once session.search has returned the candidate list
\* (lines 156-194): the three passes in order.
search_with_query(track, cands, exactOnly) ==
  IF cands = <<>> THEN None
  ELSE LET e == FirstMatch(track, cands, ExactMatch)
           f == FirstMatch(track, cands, FuzzyMatchPass)
           t == FirstMatch(track, cands, TitleOnlyMatch)
       IN IF e # 0 THEN [track |-> cands[e].id, match_type |-> "EXACT"]
          ELSE IF exactOnly THEN None
          ELSE IF f # 0 THEN [track |-> cands[f].id, match_type |-> "FUZZY"]
          ELSE IF t # 0 THEN [track |-> cands[t].id, match_type |-> "TITLE_ONLY"]
          ELSE None

\* artist_similarity(a1, a2) >= ARTIST_SIMILARITY_THRESHOLD (0.5): the Jaccard
\* index of the word sets, 0.0 when either set is empty.
\* A faulty variant: the similarity has to be above the threshold.
ArtistSimilar_Above(artist1, artist2) ==
  LET a1 == WordSet(normalize_for_compare(artist1))
      a2 == WordSet(normalize_for_compare(artist2))
  IN /\ a1 # {}
     /\ a2 # {}
     /\ 2 * Cardinality(a1 \cap a2) > Cardinality(a1 \cup a2)

ArtistSimilar(artist1, artist2) ==
  LET a1 == WordSet(normalize_for_compare(artist1))
      a2 == WordSet(normalize_for_compare(artist2))
  IN /\ a1 # {}
     /\ a2 # {}
     /\ 2 * Cardinality(a1 \cap a2) >= Cardinality(a1 \cup a2)

\* classify_match
classify_match(original, found_artist, found_title) ==
  LET orig_title       == normalize_for_compare(original.title)
      found_title_norm == normalize_for_compare(found_title)
  IN IF ArtistSimilar(original.artist, found_artist) THEN "GOOD"
     ELSE IF \/ orig_title = found_title_norm
             \/ IsSubstring(orig_title, found_title_norm)
             \/ IsSubstring(found_title_norm, orig_title)
          THEN "MEDIUM"
     ELSE "BAD"

(***************************************************************************)
(* The data of a run.                                                      *)
(***************************************************************************)
\* The Track values a Yandex playlist may hold (models.Track: artist, title).
Tracks ==
  { [artist |-> <<"A", "!">>,      title |-> <<"x">>],
    [artist |-> <<"a", " ", "b">>, title |-> <<"x">>] }

\* A track whose five queries are all different: "a x y (z)", "a x y",
\* "x y (z)", "x y" and "a x".
LongTrack ==
  [artist |-> <<"a">>, title |-> <<"x", " ", "y", " ", "(", "z", ")">>]

AllTracks == Tracks \cup {LongTrack}

\* The tidalapi.Track objects of the provider: id, artist (may be absent), name.
Catalog ==
  << [id |-> 1, has_artist |-> TRUE, artist |-> <<"a">>,           name |-> <<"x">>],
     [id |-> 2, has_artist |-> TRUE, artist |-> <<"b", " ", "a">>, name |-> <<"x">>],
     [id |-> 3, has_artist |-> TRUE, artist |-> <<"c">>,           name |-> <<"x">>] >>

CatalogIds == 1..Len(Catalog)

SeqsUpTo(S, n) == UNION {[1..k -> S] : k \in 0..n}

\* What one session.search call may return: a candidate list.
CandLists == SeqsUpTo({Catalog[i] : i \in CatalogIds}, MaxCands)

\* tidal_track.artist.name if tidal_track.artist else "?"
found_artist_of(tidal_track) ==
  IF tidal_track.has_artist THEN tidal_track.artist ELSE <<"?">>

\* tidal_track.name if tidal_track.name else "?"
found_title_of(tidal_track) ==
  IF tidal_track.name # <<>> THEN tidal_track.name ELSE <<"?">>

\* The key sync_playlist computes for a found tidal track (line 161).
found_key_of(tidal_track) ==
  make_track_key(found_artist_of(tidal_track), found_title_of(tidal_track))

\* get_playlist_track_keys over a listing (a sequence of catalog ids).
track_keys(listing) ==
  { make_track_key(result_artist(Catalog[listing[k]]), Catalog[listing[k]].name)
      : k \in 1..Len(listing) }

NoResult == [returned |-> FALSE]
NoBatch  == [issued |-> FALSE, ids |-> <<>>]
NoMenu   == [shown |-> FALSE, none |-> FALSE, sel |-> {}]
\* MatchStats(), and the match_stats = None of a SyncResult built without one.
MatchStats ==
  [present |-> TRUE, exact |-> 0, fuzzy_good |-> 0, fuzzy_medium |-> 0, fuzzy_bad |-> 0]
NoStats ==
  [present |-> FALSE, exact |-> 0, fuzzy_good |-> 0, fuzzy_medium |-> 0, fuzzy_bad |-> 0]

\* self._liked_tracks_cache = None
NoLikedCache == [cached |-> FALSE, ids |-> {}]

NoLikeCall    == [called |-> FALSE, track_ids |-> <<>>, to_like |-> <<>>, liked |-> {}]
NoCleanupCall == [called |-> FALSE, tidal_tracks |-> <<>>, orphaned |-> <<>>,
                  indices_to_remove |-> <<>>]

\* The favourites step and the cleanup step before sync_playlist is called, for
\* a TidalClient that was just constructed.
TailInit ==
  /\ liked_cache = NoLikedCache
  /\ liked_count = 0
  /\ removed_count = 0
  /\ favorites0 = favorites
  /\ liked_fetches = 0
  /\ like_call = NoLikeCall
  /\ cleanup_call = NoCleanupCall
  /\ cleanup_menu = NoMenu
  /\ removal_calls = <<>>

\* No call of the retry wrapper or of the matching passes on its own is under way,
\* and sync_playlist is not run a second time.
NoReturn == [returned |-> FALSE]
NoRerun  == [run |-> 0]
NoCall ==
  /\ func_script = <<>>
  /\ retry_attempt = 0
  /\ func_calls = 0
  /\ wrapper_return = NoReturn
  /\ match_call = [called |-> FALSE]
  /\ match_return = NoReturn
  /\ sleeps = <<>>
  /\ text_call = [called |-> FALSE]
  /\ text_return = NoReturn
  /\ rerun = NoRerun

\* The dict key str(playlist.id) of the empty cache.
EmptyCache == [k \in {} |-> <<>>]

Init ==
  /\ playlists \in {<<>>} \cup {<<l>> : l \in SeqsUpTo(CatalogIds, MaxDest)}
  /\ cache = EmptyCache
  /\ playlist \in SeqsUpTo(Tracks, MaxTracks)
  /\ exact_only \in BOOLEAN
  /\ fuzzy_selector \in BOOLEAN
  /\ pc = "find"
  /\ tidal_playlist = 0
  /\ existing_keys = {}
  /\ is_delta = FALSE
  /\ tracks_to_sync = <<>>
  /\ skipped = 0
  /\ futures = <<>>
  /\ results = <<>>
  /\ search_results = <<>>
  /\ found_track_ids = <<>>
  /\ fuzzy_matches = <<>>
  /\ not_found_tracks = <<>>
  /\ stats = NoStats
  /\ result = NoResult
  /\ raised = ""
  /\ dest0 = IF playlists = <<>> THEN <<>> ELSE playlists[1]
  /\ created = 0
  /\ listing_fetches = 0
  /\ fetch_failed = FALSE
  /\ find_failed = FALSE
  /\ batch = NoBatch
  /\ add_failed = FALSE
  /\ menu_result = NoMenu
  /\ like_tracks = FALSE
  /\ cleanup_deleted = FALSE
  /\ cleanup_selector = FALSE
  /\ favorites = {}
  /\ TailInit
  /\ NoCall

(***************************************************************************)
(* sync_playlist, lines 107-141.                                           *)
(***************************************************************************)
\* TidalClient.find_playlist_by_name: the first playlist with the name; an
\* exception of session.user.playlists() is logged and None is returned.
FindPlaylist ==
  /\ pc = "find"
  /\ \E ok \in BOOLEAN :
       /\ tidal_playlist' = IF ok /\ playlists # <<>> THEN 1 ELSE 0
       /\ find_failed' = ~ok
  /\ pc' = "load"
  /\ UNCHANGED << playlists, cache, playlist, exact_only, fuzzy_selector,
                  existing_keys, is_delta, tracks_to_sync, skipped, futures,
                  results, search_results, found_track_ids, fuzzy_matches,
                  not_found_tracks, stats, result, raised, dest0, created, listing_fetches, fetch_failed,
                  batch, add_failed, menu_result >>
  /\ UNCHANGED << tail_vars, call_vars >>

\* "Filter tracks for delta sync using normalized keys" (lines 119-130).
RECURSIVE FilterMissing(_, _, _)
FilterMissing(tracks, keys, i) ==
  IF i > Len(tracks) THEN <<>>
  ELSE (IF make_track_key(tracks[i].artist, tracks[i].title) \notin keys
        THEN <<i>> ELSE <<>>) \o FilterMissing(tracks, keys, i + 1)

TracksToSync(tracks, keys) ==
  IF keys # {} THEN FilterMissing(tracks, keys, 1)
  ELSE [i \in 1..Len(tracks) |-> i]

SyncResult(found, not_found, skip, delta, match_stats, liked, removed) ==
  [ returned         |-> TRUE,
    total_tracks     |-> Len(playlist),
    found_tracks     |-> found,
    not_found_tracks |-> not_found,
    skipped_tracks   |-> skip,
    is_delta         |-> delta,
    match_stats      |-> match_stats,
    liked_tracks     |-> liked,
    removed_tracks   |-> removed ]

\* A submitted search_track that has not called the provider yet.  all_failed
\* records that every session.search call made for the track so far has raised.
Queued ==
  [st |-> "queued", strategy |-> 1, attempt |-> 1, result |-> None,
   all_failed |-> TRUE]

\* get_playlist_track_keys through get_playlist_tracks (an exception of
\* playlist.tracks() is logged and [] is returned, nothing is cached), then the
\* delta filter and the early return when nothing is left to search.
LoadExisting ==
  /\ pc = "load"
  /\ \E ok \in (IF tidal_playlist # 0 THEN BOOLEAN ELSE {TRUE}) :
       LET hit     == tidal_playlist \in DOMAIN cache
           listing == IF tidal_playlist = 0 THEN <<>>
                      ELSE IF hit THEN cache[tidal_playlist]
                      ELSE IF ok THEN playlists[tidal_playlist]
                      ELSE <<>>
           keys    == track_keys(listing)
           todo    == TracksToSync(playlist, keys)
           skip    == Len(playlist) - Len(todo)
       IN /\ cache' = IF tidal_playlist # 0 /\ ~hit /\ ok
                      THEN [k \in DOMAIN cache \cup {tidal_playlist} |->
                              IF k = tidal_playlist THEN listing ELSE cache[k]]
                      ELSE cache
          /\ fetch_failed' = (tidal_playlist # 0 /\ ~hit /\ ~ok)
          /\ listing_fetches' = IF tidal_playlist # 0 /\ ~hit /\ ok
                                THEN listing_fetches + 1 ELSE listing_fetches
          /\ existing_keys' = keys
          /\ is_delta' = (tidal_playlist # 0)
          /\ tracks_to_sync' = todo
          /\ skipped' = skip
          /\ IF todo = <<>>
             THEN /\ result' = SyncResult(0, <<>>, skip, tidal_playlist # 0, NoStats, 0, 0)
                  /\ pc' = "done"
                  /\ futures' = futures
             ELSE /\ result' = result
                  /\ pc' = "search"
                  /\ futures' = [i \in 1..Len(todo) |-> Queued]
  /\ UNCHANGED << playlists, playlist, exact_only, fuzzy_selector, tidal_playlist,
                  results, search_results, found_track_ids, fuzzy_matches,
                  not_found_tracks, stats, raised, dest0, created, find_failed, batch,
                  add_failed, menu_result >>
  /\ UNCHANGED << tail_vars, call_vars >>

(***************************************************************************)
(* _search_parallel (lines 307-342) and search_track under the retry       *)
(* wrapper.                                                                *)
(***************************************************************************)
workers == DEFAULT_SEARCH_WORKERS

\* The queries of each track, and what _search_with_query can return for a track
\* once session.search has answered: its value over every candidate list.
StrategiesOf == [t \in AllTracks |-> unique_strategies(t)]
SearchOutcomes ==
  [t \in AllTracks, e \in BOOLEAN |-> {search_with_query(t, c, e) : c \in CandLists}]

Finished(r, failed) ==
  [st |-> "done", strategy |-> 0, attempt |-> 0, result |-> r, all_failed |-> failed]

Running(strategy, attempt, failed) ==
  [st |-> "running", strategy |-> strategy, attempt |-> attempt, result |-> None,
   all_failed |-> failed]

\* A faulty variant: the wrapper gives up one attempt early.
wrapper_attempt_OneShort(tried, raises, value) ==
  IF ~raises
  THEN [returned |-> TRUE, raised |-> FALSE, value |-> value, attempt |-> tried]
  ELSE IF tried = max_attempts - 1
  THEN [returned |-> TRUE, raised |-> FALSE, value |-> None, attempt |-> tried]
  ELSE [returned |-> FALSE, raised |-> FALSE, value |-> None, attempt |-> tried + 1]

\* A faulty variant: the last exception is raised again.
wrapper_attempt_Reraises(tried, raises, value) ==
  IF ~raises
  THEN [returned |-> TRUE, raised |-> FALSE, value |-> value, attempt |-> tried]
  ELSE IF tried = max_attempts
  THEN [returned |-> TRUE, raised |-> TRUE, value |-> None, attempt |-> tried]
  ELSE [returned |-> FALSE, raised |-> FALSE, value |-> None, attempt |-> tried + 1]

\* One turn of the loop of retry_with_backoff's wrapper (retry.py, lines 42-61):
\* func is called; its value is returned, or its exception is caught and the
\* wrapper returns None on the last attempt and sleeps before the next otherwise.
wrapper_attempt(tried, raises, value) ==
  IF ~raises
  THEN [returned |-> TRUE, raised |-> FALSE, value |-> value, attempt |-> tried]
  ELSE IF tried = max_attempts
  THEN [returned |-> TRUE, raised |-> FALSE, value |-> None, attempt |-> tried]
  ELSE [returned |-> FALSE, raised |-> FALSE, value |-> None, attempt |-> tried + 1]

\* A faulty variant: after the last query the search starts over.
search_track_next_StartsOver(f, queries, w, failed) ==
  IF ~w.returned THEN Running(f.strategy, w.attempt, failed)
  ELSE IF w.value # None THEN Finished(w.value, failed)
  ELSE IF f.strategy = queries THEN Running(1, 1, failed)
  ELSE Running(f.strategy + 1, 1, failed)

\* A faulty variant: a query without a match ends the search of the track.
search_track_next_FirstQueryOnly(f, queries, w, failed) ==
  IF ~w.returned THEN Running(f.strategy, w.attempt, failed)
  ELSE Finished(w.value, failed)

\* The loop of search_track (lines 138-145) around one turn w of the wrapper,
\* for a track with the given number of queries: the same query again while
\* the wrapper retries; "if result: return result"; else the next query, and
\* None after the last.
search_track_next(f, queries, w, failed) ==
  IF ~w.returned THEN Running(f.strategy, w.attempt, failed)
  ELSE IF w.value # None THEN Finished(w.value, failed)
  ELSE IF f.strategy = queries THEN Finished(None, failed)
  ELSE Running(f.strategy + 1, 1, failed)

\* One invocation of session.search by the worker running search_track for the
\* i-th submitted track: the current query, under retry_with_backoff.  The call
\* raises, or returns a candidate list that _search_with_query matches.
SearchAttempt(i) ==
  /\ pc = "search"
  /\ futures[i].st \in {"queued", "running"}
  /\ futures[i].st = "queued" =>
       Cardinality({j \in DOMAIN futures : futures[j].st = "running"}) < workers
  /\ LET track      == playlist[tracks_to_sync[i]]
         strategies == StrategiesOf[track]
         f          == futures[i]
         \* the wrapper after this call of _search_with_query
         after(w, failed) == search_track_next(f, Len(strategies), w, failed)
     IN \/ \* session.search raised: sleep and retry, or give the query up
           futures' = [futures EXCEPT ![i] =
                         after(wrapper_attempt(f.attempt, TRUE, None), f.all_failed)]
        \/ \* session.search returned a candidate list
           \E r \in SearchOutcomes[track, exact_only] :
             futures' = [futures EXCEPT ![i] =
                           after(wrapper_attempt(f.attempt, FALSE, r), FALSE)]
  /\ UNCHANGED << playlists, cache, playlist, exact_only, fuzzy_selector, pc,
                  tidal_playlist, existing_keys, is_delta, tracks_to_sync, skipped,
                  results, search_results, found_track_ids, fuzzy_matches,
                  not_found_tracks, stats, result, raised, dest0, created, listing_fetches, fetch_failed,
                  find_failed, batch, add_failed, menu_result >>
  /\ UNCHANGED << tail_vars, call_vars >>

\* list.sort(key=...): a stable sort of [key, val] pairs by their integer key.
RECURSIVE Insert(_, _)
Insert(sorted, x) ==
  IF sorted = <<>> THEN <<x>>
  ELSE IF Head(sorted).key <= x.key
       THEN <<Head(sorted)>> \o Insert(Tail(sorted), x)
       ELSE <<x>> \o sorted

RECURSIVE StableSort(_)
StableSort(keyed) ==
  IF keyed = <<>> THEN <<>>
  ELSE Insert(StableSort(SubSeq(keyed, 1, Len(keyed) - 1)), keyed[Len(keyed)])

\* A faulty variant: the pairs are returned in completion order.
RestoreOrder_Unsorted(pairs, tracks) == pairs

\* "Restore original order": track_order = {id(t): i for i, t in enumerate(tracks)}
\* and results.sort(key=lambda x: track_order[id(x[0])]).
RestoreOrder(pairs, tracks) ==
  LET track_order(t) == CHOOSE i \in 1..Len(tracks) :
                          /\ tracks[i] = t
                          /\ \A j \in 1..Len(tracks) : tracks[j] = t => j <= i
      keyed  == [k \in 1..Len(pairs) |->
                   [key |-> track_order(pairs[k].track), val |-> pairs[k]]]
      sorted == StableSort(keyed)
  IN [k \in 1..Len(sorted) |-> sorted[k].val]

\* One turn of the as_completed loop: a finished future is collected.  When it
\* was the last one the pool is left, the pairs are sorted and returned.
\* A faulty variant: the loop is left at the first search that completes.
all_collected_First(fs, i) == TRUE

\* "for future in as_completed(futures)" is at its end with the i-th future:
\* every other future has been taken from it.
all_collected(fs, i) == \A j \in DOMAIN fs : j # i => fs[j].st = "collected"

Collect(i) ==
  /\ pc = "search"
  /\ futures[i].st = "done"
  /\ LET collected == Append(results, [track  |-> tracks_to_sync[i],
                                       result |-> futures[i].result])
         all_in    == all_collected(futures, i)
     IN /\ results' = collected
        /\ futures' = [futures EXCEPT ![i].st = "collected"]
        /\ IF all_in
           THEN /\ search_results' = RestoreOrder(collected, tracks_to_sync)
                /\ pc' = "partition"
           ELSE /\ search_results' = search_results
                /\ pc' = pc
  /\ UNCHANGED << playlists, cache, playlist, exact_only, fuzzy_selector,
                  tidal_playlist, existing_keys, is_delta, tracks_to_sync, skipped,
                  found_track_ids, fuzzy_matches, not_found_tracks, stats, result,
                  raised, dest0, created, listing_fetches, fetch_failed, find_failed,
                  batch, add_failed, menu_result >>
  /\ UNCHANGED << tail_vars, call_vars >>

(***************************************************************************)
(* sync_playlist, lines 150-188: exact, fuzzy, not found.                  *)
(***************************************************************************)
\* A faulty variant: a found track is never taken as listed already.
AlreadyInPlaylist_Never(found_key, keys) == FALSE

\* "Skip if this exact Tidal track is already in playlist" (line 164).
AlreadyInPlaylist(found_key, keys) == found_key \in keys

\* A faulty variant: a title-only match is accepted without review too.
NeedsNoReview_TitleOnlyToo(match_type) == match_type \in {"EXACT", "TITLE_ONLY"}

\* match_type == MatchType.EXACT (line 168): the match needs no review.
NeedsNoReview(match_type) == match_type = "EXACT"

\* A faulty variant: a found track that is already listed is not counted.
SkipFound_NotCounted(acc) == acc

\* skipped += 1 (line 165)
SkipFound(acc) == [acc EXCEPT !.skipped = @ + 1]

\* A faulty variant: the exact match is counted and its id not kept.
AddExact_CountOnly(acc, tidal_id) == [acc EXCEPT !.stats.exact = @ + 1]

\* found_track_ids.append(result.track.id); stats.exact += 1 (lines 169-170)
AddExact(acc, tidal_id) ==
  [acc EXCEPT !.found_track_ids = Append(@, tidal_id), !.stats.exact = @ + 1]

\* fuzzy_matches.append(FuzzyMatch(...)) (lines 173-184)
AddFuzzy(acc, match) == [acc EXCEPT !.fuzzy_matches = Append(@, match)]

\* A faulty variant: a track without a result is dropped.
AddNotFound_Dropped(acc, track) == acc

\* not_found_tracks.append(track) (line 186)
AddNotFound(acc, track) == [acc EXCEPT !.not_found_tracks = Append(@, track)]

\* The loop of lines 156-186 from the k-th pair on.
RECURSIVE PartitionFrom(_, _, _, _)
PartitionFrom(sr, keys, k, acc) ==
  IF k > Len(sr) THEN acc
  ELSE LET track == sr[k].track
           res   == sr[k].result
       IN IF res # None
          THEN LET tidal_track  == Catalog[res.track]
                   found_artist == found_artist_of(tidal_track)
                   found_title  == found_title_of(tidal_track)
                   found_key    == make_track_key(found_artist, found_title)
               IN IF AlreadyInPlaylist(found_key, keys)
                  THEN PartitionFrom(sr, keys, k + 1, SkipFound(acc))
                  ELSE IF NeedsNoReview(res.match_type)
                  THEN PartitionFrom(sr, keys, k + 1, AddExact(acc, res.track))
                  ELSE PartitionFrom(sr, keys, k + 1,
                         AddFuzzy(acc,
                           [ index        |-> k - 1,
                             original     |-> track,
                             found_artist |-> found_artist,
                             found_title  |-> found_title,
                             tidal_id     |-> res.track,
                             quality      |-> classify_match(playlist[track],
                                               found_artist, found_title) ]))
          ELSE PartitionFrom(sr, keys, k + 1, AddNotFound(acc, track))

Partition ==
  /\ pc = "partition"
  /\ LET acc == PartitionFrom(search_results, existing_keys, 1,
                  [ found_track_ids  |-> <<>>,
                    fuzzy_matches    |-> <<>>,
                    not_found_tracks |-> <<>>,
                    stats            |-> MatchStats,
                    skipped          |-> skipped ])
     IN /\ found_track_ids' = acc.found_track_ids
        /\ fuzzy_matches' = acc.fuzzy_matches
        /\ not_found_tracks' = acc.not_found_tracks
        /\ stats' = acc.stats
        /\ skipped' = acc.skipped
  /\ pc' = "review"
  /\ UNCHANGED << playlists, cache, playlist, exact_only, fuzzy_selector,
                  tidal_playlist, existing_keys, is_delta, tracks_to_sync, futures,
                  results, search_results, result, raised, dest0, created, listing_fetches, fetch_failed,
                  find_failed, batch, add_failed, menu_result >>
  /\ UNCHANGED << tail_vars, call_vars >>

(***************************************************************************)
(* The review of the fuzzy matches: select_fuzzy_matches (sync.py) and     *)
(* sync_playlist, lines 190-214.                                           *)
(***************************************************************************)
\* quality_order = {MatchQuality.GOOD: 0, MatchQuality.MEDIUM: 1, MatchQuality.BAD: 2}
quality_order(q) == CASE q = "GOOD" -> 0 [] q = "MEDIUM" -> 1 [] OTHER -> 2

\* sorted(matches, key=lambda m: quality_order[m.quality])
sorted_matches(matches) ==
  LET keyed  == [k \in 1..Len(matches) |->
                   [key |-> quality_order(matches[k].quality), val |-> matches[k]]]
      sorted == StableSort(keyed)
  IN [k \in 1..Len(sorted) |-> sorted[k].val]

\* What TerminalMenu.show() may return for a menu of n items: None (nothing
\* selected, or the menu was interrupted) or the selected positions, from 0.
MenuResults(n) ==
  {[shown |-> TRUE, none |-> TRUE, sel |-> {}]}
    \cup {[shown |-> TRUE, none |-> FALSE, sel |-> S] : S \in SUBSET (0..(n - 1))}

\* A faulty variant: a menu left without a selection selects every match.
select_fuzzy_matches_NoneSelectsAll(matches, menu) ==
  IF menu.none THEN {matches[k].index : k \in DOMAIN matches}
  ELSE {sorted_matches(matches)[i + 1].index : i \in menu.sel}

\* select_fuzzy_matches: [] for None, else [sorted_matches[i].index for i in
\* selected_indices].
select_fuzzy_matches(matches, menu) ==
  IF menu.none THEN {}
  ELSE {sorted_matches(matches)[i + 1].index : i \in menu.sel}

\* A faulty variant: the selection is read as positions counted from one.
IsSelected_FromOne(match, selected_indices) == (match.index + 1) \in selected_indices

\* match.index in selected_indices (line 194)
IsSelected(match, selected_indices) == match.index \in selected_indices

TidalIds(matches) == [k \in 1..Len(matches) |-> matches[k].tidal_id]
Originals(matches) == [k \in 1..Len(matches) |-> matches[k].original]
CountQuality(matches, q) ==
  Cardinality({k \in 1..Len(matches) : matches[k].quality = q})

\* A faulty variant: the accepted matches are reported as not found.
ApplyReview_AcceptsNone(accepted, rejected) ==
  /\ found_track_ids' = found_track_ids
  /\ not_found_tracks' = not_found_tracks \o Originals(accepted) \o Originals(rejected)
  /\ stats' = stats

\* The loop bodies of lines 193-204 and 207-214 over the accepted and the
\* rejected matches, each kept in the order of fuzzy_matches.
ApplyReview(accepted, rejected) ==
  /\ found_track_ids' = found_track_ids \o TidalIds(accepted)
  /\ not_found_tracks' = not_found_tracks \o Originals(rejected)
  /\ stats' = [stats EXCEPT !.fuzzy_good   = @ + CountQuality(accepted, "GOOD"),
                            !.fuzzy_medium = @ + CountQuality(accepted, "MEDIUM"),
                            !.fuzzy_bad    = @ + CountQuality(accepted, "BAD")]

Review ==
  /\ pc = "review"
  /\ IF fuzzy_matches # <<>> /\ fuzzy_selector
     THEN \E menu \in MenuResults(Len(fuzzy_matches)) :
            LET selected_indices == select_fuzzy_matches(fuzzy_matches, menu)
            IN /\ menu_result' = menu
               /\ ApplyReview(
                    SelectSeq(fuzzy_matches, LAMBDA m : IsSelected(m, selected_indices)),
                    SelectSeq(fuzzy_matches, LAMBDA m : ~IsSelected(m, selected_indices)))
     ELSE /\ menu_result' = menu_result
          /\ ApplyReview(fuzzy_matches, <<>>)
  /\ pc' = "create"
  /\ UNCHANGED << playlists, cache, playlist, exact_only, fuzzy_selector,
                  tidal_playlist, existing_keys, is_delta, tracks_to_sync, skipped,
                  futures, results, search_results, fuzzy_matches, result, raised,
                  dest0, created, listing_fetches, fetch_failed, find_failed, batch, add_failed >>
  /\ UNCHANGED << tail_vars, call_vars >>

(***************************************************************************)
(* sync_playlist, lines 216-263: create, add, return.                      *)
(***************************************************************************)
\* "Create playlist if doesn't exist": TidalClient.create_playlist has no
\* handler, an exception of the provider leaves sync_playlist.
CreatePlaylist ==
  /\ pc = "create"
  /\ IF tidal_playlist = 0
     THEN \E ok \in BOOLEAN :
            IF ok
            THEN /\ playlists' = Append(playlists, <<>>)
                 /\ tidal_playlist' = Len(playlists) + 1
                 /\ created' = created + 1
                 /\ raised' = raised
                 /\ pc' = "add"
            ELSE /\ raised' = "create_playlist"
                 /\ pc' = "done"
                 /\ UNCHANGED << playlists, tidal_playlist, created >>
     ELSE /\ pc' = "add"
          /\ UNCHANGED << playlists, tidal_playlist, created, raised >>
  /\ UNCHANGED << cache, playlist, exact_only, fuzzy_selector, existing_keys,
                  is_delta, tracks_to_sync, skipped, futures, results,
                  search_results, found_track_ids, fuzzy_matches, not_found_tracks,
                  stats, result, dest0, listing_fetches, fetch_failed, find_failed,
                  batch, add_failed, menu_result >>
  /\ UNCHANGED << tail_vars, call_vars >>

\* A faulty variant: the cached listing is kept.
Invalidated_Kept(c, pl) == c

\* invalidate_playlist_cache: self._playlist_tracks_cache.pop(playlist_id, None)
Invalidated(c, pl) == [k \in DOMAIN c \ {pl} |-> c[k]]

\* A faulty variant: the add call carries the first accepted id only.
AddTracks_FirstOnly ==
  /\ pc = "add"
  /\ IF found_track_ids # <<>>
     THEN /\ batch' = [issued |-> TRUE, ids |-> <<Head(found_track_ids)>>]
          /\ \E ok \in BOOLEAN :
               IF ok
               THEN /\ playlists' = [playlists EXCEPT ![tidal_playlist] =
                                       Append(@, Head(found_track_ids))]
                    /\ cache' = Invalidated(cache, tidal_playlist)
                    /\ listing_fetches' = 0
                    /\ add_failed' = add_failed
               ELSE /\ add_failed' = TRUE
                    /\ UNCHANGED << playlists, cache, listing_fetches >>
     ELSE UNCHANGED << batch, playlists, cache, listing_fetches, add_failed >>
  /\ pc' = "like"
  /\ UNCHANGED << playlist, exact_only, fuzzy_selector, tidal_playlist,
                  existing_keys, is_delta, tracks_to_sync, skipped, futures, results,
                  search_results, found_track_ids, fuzzy_matches, not_found_tracks,
                  stats, result, raised, dest0, created, fetch_failed, find_failed,
                  menu_result >>
  /\ UNCHANGED << tail_vars, call_vars >>

\* TidalClient.add_tracks_to_playlist: one playlist.add(track_ids); an exception
\* is logged and not raised again, and the cache is then left as it is.
AddTracks ==
  /\ pc = "add"
  /\ IF found_track_ids # <<>>
     THEN /\ batch' = [issued |-> TRUE, ids |-> found_track_ids]
          /\ \E ok \in BOOLEAN :
               IF ok
               THEN /\ playlists' = [playlists EXCEPT ![tidal_playlist] =
                                       @ \o found_track_ids]
                    /\ cache' = Invalidated(cache, tidal_playlist)
                    /\ listing_fetches' = 0
                    /\ add_failed' = add_failed
               ELSE /\ add_failed' = TRUE
                    /\ UNCHANGED << playlists, cache, listing_fetches >>
     ELSE UNCHANGED << batch, playlists, cache, listing_fetches, add_failed >>
  /\ pc' = "like"
  /\ UNCHANGED << playlist, exact_only, fuzzy_selector, tidal_playlist,
                  existing_keys, is_delta, tracks_to_sync, skipped, futures, results,
                  search_results, found_track_ids, fuzzy_matches, not_found_tracks,
                  stats, result, raised, dest0, created, fetch_failed, find_failed,
                  menu_result >>
  /\ UNCHANGED << tail_vars, call_vars >>

(***************************************************************************)
(* sync_playlist, lines 227-242: the favourites.                           *)
(***************************************************************************)
\* TidalClient.get_playlist_tracks for tidal_playlist: the cached listing, or
\* the one playlist.tracks() returns now, which is cached; when the call raises
\* (ok is FALSE) the result is [] and nothing is cached.
get_playlist_tracks(ok) ==
  LET hit == tidal_playlist \in DOMAIN cache
  IN [ listing |-> IF hit THEN cache[tidal_playlist]
                   ELSE IF ok THEN playlists[tidal_playlist]
                   ELSE <<>>,
       cache   |-> IF ~hit /\ ok
                   THEN [k \in DOMAIN cache \cup {tidal_playlist} |->
                           IF k = tidal_playlist THEN playlists[tidal_playlist]
                           ELSE cache[k]]
                   ELSE cache,
       fetches |-> IF ~hit /\ ok THEN listing_fetches + 1 ELSE listing_fetches ]

\* Whether playlist.tracks() may raise: it is only called without a cached listing.
TracksOutcomes == IF tidal_playlist \in DOMAIN cache THEN {TRUE} ELSE BOOLEAN

\* to_like = [tid for tid in track_ids if tid not in already_liked]
to_like_of(track_ids, already_liked) ==
  SelectSeq(track_ids, LAMBDA tid : tid \notin already_liked)

\* TidalClient.like_tracks(track_ids): get_liked_track_ids (the cached set, or
\* the set fetched now; set() and no caching when the fetch raises), then one
\* add_track per id of to_like in the pool.  like_one turns an exception into
\* False, so the calls are independent: liked_ok are the positions of to_like
\* whose call succeeded.
TidalLikeTracks(track_ids) ==
  \E fetch_ok \in (IF liked_cache.cached THEN {TRUE} ELSE BOOLEAN) :
    LET fetched       == ~liked_cache.cached
        after_get     == IF fetched /\ fetch_ok
                         THEN [cached |-> TRUE, ids |-> favorites]
                         ELSE liked_cache
        already_liked == IF fetched /\ ~fetch_ok THEN {} ELSE after_get.ids
        to_like       == to_like_of(track_ids, already_liked)
    IN /\ liked_fetches' = liked_fetches + (IF fetched THEN 1 ELSE 0)
       /\ IF to_like = <<>>
          THEN /\ liked_count' = 0
               /\ liked_cache' = after_get
               /\ favorites' = favorites
               /\ like_call' = [called |-> TRUE, track_ids |-> track_ids,
                                to_like |-> to_like, liked |-> {}]
          ELSE \E liked_ok \in SUBSET DOMAIN to_like :
                 /\ favorites' = favorites \cup {to_like[k] : k \in liked_ok}
                 /\ liked_count' = Cardinality(liked_ok)
                 /\ liked_cache' = NoLikedCache
                 /\ like_call' = [called |-> TRUE, track_ids |-> track_ids,
                                  to_like |-> to_like, liked |-> liked_ok]

\* "Like tracks in Tidal if requested (for favorites sync)".
LikeTracks ==
  /\ pc = "like"
  /\ IF like_tracks /\ tidal_playlist # 0
     THEN \E ok \in TracksOutcomes :
            LET got           == get_playlist_tracks(ok)
                all_track_ids == got.listing
            IN /\ cache' = got.cache
               /\ listing_fetches' = got.fetches
               /\ IF all_track_ids # <<>>
                  THEN TidalLikeTracks(all_track_ids)
                  ELSE UNCHANGED << favorites, liked_cache, liked_count,
                                    liked_fetches, like_call >>
     ELSE UNCHANGED << cache, listing_fetches, favorites, liked_cache, liked_count,
                       liked_fetches, like_call >>
  /\ pc' = "cleanup"
  /\ UNCHANGED << playlists, playlist, exact_only, fuzzy_selector, tidal_playlist,
                  existing_keys, is_delta, tracks_to_sync, skipped, futures, results,
                  search_results, found_track_ids, fuzzy_matches, not_found_tracks,
                  stats, result, raised, dest0, created, fetch_failed, find_failed, batch,
                  add_failed, menu_result, like_tracks, cleanup_deleted,
                  cleanup_selector, removed_count, favorites0, cleanup_call,
                  cleanup_menu, removal_calls >>
  /\ UNCHANGED call_vars

(***************************************************************************)
(* sync_playlist, lines 244-249: _cleanup_deleted_tracks (lines 265-305),  *)
(* select_tracks_to_remove (sync.py) and remove_tracks_from_playlist.      *)
(***************************************************************************)
\* yandex_keys (lines 273-276)
yandex_keys == {make_track_key(playlist[p].artist, playlist[p].title) : p \in DOMAIN playlist}

\* The key _cleanup_deleted_tracks computes for a row of
\* get_playlist_tracks_with_indices (artist "" without an artist, line 284).
tidal_key(tidal_id) ==
  make_track_key(result_artist(Catalog[tidal_id]), Catalog[tidal_id].name)

\* orphaned (lines 282-286): the indices, from 0, of the tracks of the listing
\* whose key is not a key of the Yandex playlist, in the order of the listing.
RECURSIVE OrphanedFrom(_, _)
OrphanedFrom(tidal_tracks, k) ==
  IF k > Len(tidal_tracks) THEN <<>>
  ELSE (IF tidal_key(tidal_tracks[k]) \notin yandex_keys THEN <<k - 1>> ELSE <<>>)
         \o OrphanedFrom(tidal_tracks, k + 1)

orphaned_of(tidal_tracks) == OrphanedFrom(tidal_tracks, 1)

\* A set of menu positions as the tuple the menu returns, in menu order.
RECURSIVE Ascending(_)
Ascending(S) ==
  IF S = {} THEN <<>>
  ELSE LET least == CHOOSE x \in S : \A y \in S : x <= y
       IN <<least>> \o Ascending(S \ {least})

\* select_tracks_to_remove: [] for None, else list(selected_indices).
select_tracks_to_remove(menu) == IF menu.none THEN <<>> ELSE Ascending(menu.sel)

\* indices_to_remove (lines 295-299)
indices_to_remove_of(orphaned, selected, with_selector) ==
  IF with_selector THEN [i \in 1..Len(selected) |-> orphaned[selected[i] + 1]]
  ELSE orphaned

\* A faulty variant: the indices are used in the order they were given in.
sorted_reverse_Unsorted(track_indices) == track_indices

\* sorted(track_indices, reverse=True)
sorted_reverse(track_indices) ==
  LET keyed  == [k \in 1..Len(track_indices) |->
                   [key |-> 0 - track_indices[k], val |-> track_indices[k]]]
      sorted == StableSort(keyed)
  IN [k \in 1..Len(sorted) |-> sorted[k].val]

\* A listing without the track at index idx, from 0.
RemoveAt(listing, idx) ==
  SubSeq(listing, 1, idx) \o SubSeq(listing, idx + 2, Len(listing))

\* The loop of remove_tracks_from_playlist from the k-th index of order on:
\* playlist.remove_by_index(idx) for each, an exception logged and passed over.
\* raising are the positions of order whose call raises at the provider; a call
\* with an index beyond the listing raises too.  calls records each call: its
\* index, whether it removed a track, and the id of the track it removed.
RECURSIVE RemoveByIndex(_, _, _, _, _)
RemoveByIndex(listing, order, raising, k, calls) ==
  IF k > Len(order) THEN [listing |-> listing, calls |-> calls]
  ELSE LET idx == order[k]
           ok  == k \notin raising /\ idx < Len(listing)
       IN RemoveByIndex(IF ok THEN RemoveAt(listing, idx) ELSE listing,
                        order, raising, k + 1,
                        Append(calls, [idx   |-> idx,
                                       ok    |-> ok,
                                       track |-> IF ok THEN listing[idx + 1] ELSE 0]))

\* TidalClient.remove_tracks_from_playlist(tidal_playlist, track_indices), for a
\* list that is not empty; cached is the cache when it is called.
RemoveTracks(track_indices, cached) ==
  \E order \in {sorted_reverse(track_indices)} :
    \E raising \in SUBSET DOMAIN order :
      \E run \in {RemoveByIndex(playlists[tidal_playlist], order, raising, 1, <<>>)} :
        /\ playlists' = [playlists EXCEPT ![tidal_playlist] = run.listing]
        /\ removal_calls' = run.calls
        /\ cache' = Invalidated(cached, tidal_playlist)
        /\ listing_fetches' = 0

\* What the removal menu may return for n items: None, or the selected positions.
CleanupMenuResults(n) == MenuResults(n)

\* _cleanup_deleted_tracks
CleanupDeletedTracks ==
  \E ok \in TracksOutcomes :
    \E got \in {get_playlist_tracks(ok)} :
      \E tidal_tracks \in {got.listing} :
        \E orphaned \in {orphaned_of(tidal_tracks)} :
          IF orphaned = <<>>
          THEN /\ removed_count' = 0
               /\ cache' = got.cache
               /\ listing_fetches' = got.fetches
               /\ cleanup_call' = [called |-> TRUE, tidal_tracks |-> tidal_tracks,
                                   orphaned |-> orphaned, indices_to_remove |-> <<>>]
               /\ UNCHANGED << playlists, cleanup_menu, removal_calls >>
          ELSE \E menu \in (IF cleanup_selector THEN CleanupMenuResults(Len(orphaned))
                            ELSE {NoMenu}) :
                 \E selected \in {select_tracks_to_remove(menu)} :
                   \E indices_to_remove \in
                        {indices_to_remove_of(orphaned, selected, cleanup_selector)} :
                     /\ cleanup_menu' = menu
                     /\ cleanup_call' = [called |-> TRUE, tidal_tracks |-> tidal_tracks,
                                         orphaned |-> orphaned,
                                         indices_to_remove |-> indices_to_remove]
                     /\ removed_count' = Len(indices_to_remove)
                     /\ IF indices_to_remove # <<>>
                        THEN RemoveTracks(indices_to_remove, got.cache)
                        ELSE /\ cache' = got.cache
                             /\ listing_fetches' = got.fetches
                             /\ UNCHANGED << playlists, removal_calls >>

\* "Cleanup: remove tracks from Tidal that are not in Yandex".
CleanupDeleted ==
  /\ pc = "cleanup"
  /\ IF cleanup_deleted /\ tidal_playlist # 0
     THEN CleanupDeletedTracks
     ELSE UNCHANGED << playlists, cache, listing_fetches, removed_count,
                       cleanup_call, cleanup_menu, removal_calls >>
  /\ pc' = "return"
  /\ UNCHANGED << playlist, exact_only, fuzzy_selector, tidal_playlist,
                  existing_keys, is_delta, tracks_to_sync, skipped, futures, results,
                  search_results, found_track_ids, fuzzy_matches, not_found_tracks,
                  stats, result, raised, dest0, created, fetch_failed, find_failed, batch,
                  add_failed, menu_result, like_tracks, cleanup_deleted,
                  cleanup_selector, favorites, liked_cache, liked_count, favorites0,
                  liked_fetches, like_call >>
  /\ UNCHANGED call_vars

\* return SyncResult(...) (lines 253-263)
Return ==
  /\ pc = "return"
  /\ result' = SyncResult(Len(found_track_ids), not_found_tracks, skipped,
                          is_delta, stats, liked_count, removed_count)
  /\ pc' = "done"
  /\ UNCHANGED << playlists, cache, playlist, exact_only, fuzzy_selector,
                  tidal_playlist, existing_keys, is_delta, tracks_to_sync, skipped,
                  futures, results, search_results, found_track_ids, fuzzy_matches,
                  not_found_tracks, stats, raised, dest0, created, listing_fetches, fetch_failed, find_failed,
                  batch, add_failed, menu_result >>
  /\ UNCHANGED << tail_vars, call_vars >>

Next ==
  \/ FindPlaylist
  \/ LoadExisting
  \/ \E i \in DOMAIN futures : SearchAttempt(i)
  \/ \E i \in DOMAIN futures : Collect(i)
  \/ Partition
  \/ Review
  \/ CreatePlaylist
  \/ AddTracks
  \/ LikeTracks
  \/ CleanupDeleted
  \/ Return

Spec == Init /\ [][Next]_vars

(***************************************************************************)
(* The runs with the favourites and the cleanup: sync_playlist called with *)
(* any like_tracks, cleanup_deleted and cleanup_selector, on a destination *)
(* of up to MaxListing tracks, from a source of up to MaxSource tracks and *)
(* with any favourites among FavoriteIds,                                  *)
(* searching for exact matches only and without a fuzzy selector.          *)
(***************************************************************************)
FavoriteIds == {1}

InitOptions ==
  /\ playlists \in {<<>>} \cup {<<l>> : l \in SeqsUpTo(CatalogIds, MaxListing)}
  /\ cache = EmptyCache
  /\ playlist \in SeqsUpTo(Tracks, MaxSource)
  /\ exact_only = TRUE
  /\ fuzzy_selector = FALSE
  /\ pc = "find"
  /\ tidal_playlist = 0
  /\ existing_keys = {}
  /\ is_delta = FALSE
  /\ tracks_to_sync = <<>>
  /\ skipped = 0
  /\ futures = <<>>
  /\ results = <<>>
  /\ search_results = <<>>
  /\ found_track_ids = <<>>
  /\ fuzzy_matches = <<>>
  /\ not_found_tracks = <<>>
  /\ stats = NoStats
  /\ result = NoResult
  /\ raised = ""
  /\ dest0 = IF playlists = <<>> THEN <<>> ELSE playlists[1]
  /\ created = 0
  /\ listing_fetches = 0
  /\ fetch_failed = FALSE
  /\ find_failed = FALSE
  /\ batch = NoBatch
  /\ add_failed = FALSE
  /\ menu_result = NoMenu
  /\ like_tracks \in BOOLEAN
  /\ cleanup_deleted \in BOOLEAN
  /\ cleanup_selector \in BOOLEAN
  /\ favorites \in SUBSET FavoriteIds
  /\ TailInit
  /\ NoCall

SpecOptions == InitOptions /\ [][Next]_vars

(***************************************************************************)
(* sync_playlist with every phase in it: fuzzy matches and their review,   *)
(* the favourites and the cleanup, for a destination that is not there or  *)
(* that lists one track.                                                   *)
(***************************************************************************)
InitPhases ==
  /\ playlists \in {<<>>} \cup {<<l>> : l \in SeqsUpTo(CatalogIds, MaxDest)}
  /\ cache = EmptyCache
  /\ playlist \in SeqsUpTo(Tracks, MaxTracks)
  /\ exact_only = FALSE
  /\ fuzzy_selector \in BOOLEAN
  /\ pc = "find"
  /\ tidal_playlist = 0
  /\ existing_keys = {}
  /\ is_delta = FALSE
  /\ tracks_to_sync = <<>>
  /\ skipped = 0
  /\ futures = <<>>
  /\ results = <<>>
  /\ search_results = <<>>
  /\ found_track_ids = <<>>
  /\ fuzzy_matches = <<>>
  /\ not_found_tracks = <<>>
  /\ stats = NoStats
  /\ result = NoResult
  /\ raised = ""
  /\ dest0 = IF playlists = <<>> THEN <<>> ELSE playlists[1]
  /\ created = 0
  /\ listing_fetches = 0
  /\ fetch_failed = FALSE
  /\ find_failed = FALSE
  /\ batch = NoBatch
  /\ add_failed = FALSE
  /\ menu_result = NoMenu
  /\ like_tracks = TRUE
  /\ cleanup_deleted = TRUE
  /\ cleanup_selector = FALSE
  /\ favorites = {}
  /\ TailInit
  /\ NoCall

SpecPhases == InitPhases /\ [][Next]_vars

(***************************************************************************)
(* sync_playlist when every call of the provider and every callback        *)
(* returns: a step that can be taken is taken.  The thread pool runs every *)
(* submitted search, and sync_playlist itself is sequential.               *)
(***************************************************************************)
InitLive ==
  /\ playlists \in {<<>>, << <<3>> >>}
  /\ cache = EmptyCache
  /\ playlist \in SeqsUpTo({LongTrack}, MaxSource)
  /\ exact_only \in BOOLEAN
  /\ fuzzy_selector = TRUE
  /\ pc = "find"
  /\ tidal_playlist = 0
  /\ existing_keys = {}
  /\ is_delta = FALSE
  /\ tracks_to_sync = <<>>
  /\ skipped = 0
  /\ futures = <<>>
  /\ results = <<>>
  /\ search_results = <<>>
  /\ found_track_ids = <<>>
  /\ fuzzy_matches = <<>>
  /\ not_found_tracks = <<>>
  /\ stats = NoStats
  /\ result = NoResult
  /\ raised = ""
  /\ dest0 = IF playlists = <<>> THEN <<>> ELSE playlists[1]
  /\ created = 0
  /\ listing_fetches = 0
  /\ fetch_failed = FALSE
  /\ find_failed = FALSE
  /\ batch = NoBatch
  /\ add_failed = FALSE
  /\ menu_result = NoMenu
  /\ like_tracks = TRUE
  /\ cleanup_deleted = TRUE
  /\ cleanup_selector = FALSE
  /\ favorites = {}
  /\ TailInit
  /\ NoCall

SpecLive == InitLive /\ [][Next]_vars /\ WF_vars(Next)

(***************************************************************************)
(* sync_playlist run twice in succession on the same source, without the   *)
(* favourites and the cleanup: no remote call fails, search_track returns  *)
(* the same result for the same track in both runs, and the reviewer       *)
(* accepts the same source tracks in both runs.                            *)
(***************************************************************************)
InitTwice ==
  /\ playlists \in {<<>>} \cup {<<l>> : l \in SeqsUpTo(CatalogIds, MaxDest)}
  /\ cache = EmptyCache
  /\ playlist \in SeqsUpTo(Tracks, MaxTracks)
  /\ exact_only \in BOOLEAN
  /\ fuzzy_selector \in BOOLEAN
  /\ pc = "find"
  /\ tidal_playlist = 0
  /\ existing_keys = {}
  /\ is_delta = FALSE
  /\ tracks_to_sync = <<>>
  /\ skipped = 0
  /\ futures = <<>>
  /\ results = <<>>
  /\ search_results = <<>>
  /\ found_track_ids = <<>>
  /\ fuzzy_matches = <<>>
  /\ not_found_tracks = <<>>
  /\ stats = NoStats
  /\ result = NoResult
  /\ raised = ""
  /\ dest0 = IF playlists = <<>> THEN <<>> ELSE playlists[1]
  /\ created = 0
  /\ listing_fetches = 0
  /\ fetch_failed = FALSE
  /\ find_failed = FALSE
  /\ batch = NoBatch
  /\ add_failed = FALSE
  /\ menu_result = NoMenu
  /\ like_tracks = FALSE
  /\ cleanup_deleted = FALSE
  /\ cleanup_selector = FALSE
  /\ favorites = {}
  /\ TailInit
  /\ func_script = <<>>
  /\ retry_attempt = 0
  /\ func_calls = 0
  /\ wrapper_return = NoReturn
  /\ match_call = [called |-> FALSE]
  /\ match_return = NoReturn
  /\ sleeps = <<>>
  /\ text_call = [called |-> FALSE]
  /\ text_return = NoReturn
  /\ \E answers \in [{playlist[p] : p \in DOMAIN playlist} ->
                        UNION {SearchOutcomes[t, exact_only] : t \in Tracks}],
        accepted \in SUBSET DOMAIN playlist :
       /\ \A t \in DOMAIN answers : answers[t] \in SearchOutcomes[t, exact_only]
       /\ rerun = [run |-> 1, answers |-> answers, accepted |-> accepted,
                   first |-> <<>>, result |-> NoResult]

\* A step of a run in which no remote call fails, search_track returns what
\* it returns for the track in both runs, and the reviewer selects the
\* pending matches of the source tracks that are accepted in both runs.
Replayed ==
  /\ ~find_failed' /\ ~fetch_failed' /\ ~add_failed' /\ raised' = ""
  /\ \A i \in DOMAIN futures' :
       /\ futures'[i].st # "queued" => ~futures'[i].all_failed
       /\ futures'[i].st \in {"done", "collected"} =>
            futures'[i].result = rerun.answers[playlist[tracks_to_sync'[i]]]
  /\ menu_result'.shown =>
       select_fuzzy_matches(fuzzy_matches', menu_result')
         = {fuzzy_matches'[k].index :
              k \in {n \in DOMAIN fuzzy_matches' :
                        fuzzy_matches'[n].original \in rerun.accepted}}

\* sync_playlist is called again after it returned, by the same TidalClient
\* or by a new one, whose cache is empty.
SecondRun ==
  /\ pc = "done"
  /\ rerun.run = 1
  /\ result.returned
  /\ rerun' = [rerun EXCEPT !.run = 2, !.first = playlists, !.result = result]
  /\ cache' \in {cache, EmptyCache}
  /\ pc' = "find"
  /\ tidal_playlist' = 0
  /\ existing_keys' = {}
  /\ is_delta' = FALSE
  /\ tracks_to_sync' = <<>>
  /\ skipped' = 0
  /\ futures' = <<>>
  /\ results' = <<>>
  /\ search_results' = <<>>
  /\ found_track_ids' = <<>>
  /\ fuzzy_matches' = <<>>
  /\ not_found_tracks' = <<>>
  /\ stats' = NoStats
  /\ result' = NoResult
  /\ dest0' = IF playlists = <<>> THEN <<>> ELSE playlists[1]
  /\ created' = 0
  /\ listing_fetches' = 0
  /\ batch' = NoBatch
  /\ menu_result' = NoMenu
  /\ UNCHANGED << playlists, playlist, exact_only, fuzzy_selector, raised,
                  fetch_failed, find_failed, add_failed >>
  /\ UNCHANGED << tail_vars, func_script, retry_attempt, func_calls, wrapper_return,
                  match_call, match_return, sleeps, text_call, text_return >>

NextTwice ==
  \/ FindPlaylist /\ Replayed
  \/ LoadExisting /\ Replayed
  \/ \E i \in DOMAIN futures : SearchAttempt(i) /\ Replayed
  \/ \E i \in DOMAIN futures : Collect(i) /\ Replayed
  \/ Partition /\ Replayed
  \/ Review /\ Replayed
  \/ CreatePlaylist /\ Replayed
  \/ AddTracks /\ Replayed
  \/ LikeTracks /\ Replayed
  \/ CleanupDeleted /\ Replayed
  \/ Return /\ Replayed
  \/ SecondRun

SpecTwice == InitTwice /\ [][NextTwice]_vars

(***************************************************************************)
(* retry_with_backoff (retry.py) on its own: one call of a wrapped         *)
(* function whose successive calls raise or return as func_script says.    *)
(***************************************************************************)
\* What a call of func may do: raise, or return None or a SearchResult.
FuncValues == {None} \cup {[track |-> i, match_type |-> "EXACT"] : i \in CatalogIds}
FuncOutcomes ==
  {[raises |-> TRUE, value |-> None]}
    \cup {[raises |-> FALSE, value |-> v] : v \in FuncValues}

\* No run of sync_playlist is under way.
NoRun ==
  /\ playlists = <<>>
  /\ cache = EmptyCache
  /\ playlist = <<>>
  /\ exact_only = FALSE
  /\ fuzzy_selector = FALSE
  /\ tidal_playlist = 0
  /\ existing_keys = {}
  /\ is_delta = FALSE
  /\ tracks_to_sync = <<>>
  /\ skipped = 0
  /\ futures = <<>>
  /\ results = <<>>
  /\ search_results = <<>>
  /\ found_track_ids = <<>>
  /\ fuzzy_matches = <<>>
  /\ not_found_tracks = <<>>
  /\ stats = NoStats
  /\ result = NoResult
  /\ raised = ""
  /\ dest0 = <<>>
  /\ created = 0
  /\ listing_fetches = 0
  /\ fetch_failed = FALSE
  /\ find_failed = FALSE
  /\ batch = NoBatch
  /\ add_failed = FALSE
  /\ menu_result = NoMenu
  /\ like_tracks = FALSE
  /\ cleanup_deleted = FALSE
  /\ cleanup_selector = FALSE
  /\ favorites = {}
  /\ TailInit

\* A faulty variant: the exponent is the attempt, not the attempt less one.
backoff_delay_OffByOne(tried, base, cap) ==
  IF base * (2 ^ tried) < cap THEN base * (2 ^ tried) ELSE cap

\* delay = min(base_delay * (2 ** (attempt - 1)), max_delay), in milliseconds
backoff_delay(tried, base, cap) ==
  IF base * (2 ^ (tried - 1)) < cap THEN base * (2 ^ (tried - 1)) ELSE cap

\* 0.5 + random.random(), in thousandths: the least value, one in the middle
\* and the greatest value below 1.5.
Jitters == {500, 1000, 1499}

\* delay * (0.5 + random.random()), in milliseconds
jittered(delay, jitter) == (delay * jitter) \div 1000

\* wrapper(*args, **kwargs) is entered: for attempt in range(1, max_attempts + 1).
\* The script is one call longer than the wrapper may go.
InitRetry ==
  /\ NoRun
  /\ pc = "wrapper"
  /\ func_script \in [1..(max_attempts + 1) -> FuncOutcomes]
  /\ retry_attempt = 1
  /\ func_calls = 0
  /\ wrapper_return = NoReturn
  /\ match_call = [called |-> FALSE]
  /\ match_return = NoReturn
  /\ sleeps = <<>>
  /\ text_call = [called |-> FALSE]
  /\ text_return = NoReturn
  /\ rerun = NoRerun

\* One turn of the wrapper's loop.
WrapperCall ==
  /\ pc = "wrapper"
  /\ ~wrapper_return.returned
  /\ func_calls < Len(func_script)
  /\ LET outcome == func_script[func_calls + 1]
         w       == wrapper_attempt(retry_attempt, outcome.raises, outcome.value)
         delay   == backoff_delay(retry_attempt, base_delay, max_delay)
     IN /\ func_calls' = func_calls + 1
        /\ retry_attempt' = w.attempt
        /\ wrapper_return' =
             IF w.returned
             THEN [returned |-> TRUE, raised |-> w.raised, value |-> w.value]
             ELSE wrapper_return
        /\ IF outcome.raises /\ ~w.returned
           THEN \E jitter \in Jitters :
                  sleeps' = Append(sleeps, [attempt |-> retry_attempt,
                                            delay   |-> delay,
                                            jitter  |-> jitter,
                                            slept   |-> jittered(delay, jitter)])
           ELSE sleeps' = sleeps
  /\ UNCHANGED << run_vars, tail_vars, func_script, match_call, match_return,
                  text_call, text_return, rerun >>

NextRetry == WrapperCall

SpecRetry == InitRetry /\ [][NextRetry]_vars

(***************************************************************************)
(* The matching passes of _search_with_query on their own: one call with   *)
(* a track, the candidate list session.search returned, and exact_only.    *)
(***************************************************************************)
\* The tracks searched for: those of a run and one that no candidate matches.
MatchTracks == Tracks \cup {[artist |-> <<"c">>, title |-> <<"y">>]}

InitMatch ==
  /\ NoRun
  /\ pc = "match"
  /\ func_script = <<>>
  /\ retry_attempt = 0
  /\ func_calls = 0
  /\ wrapper_return = NoReturn
  /\ match_call \in [called : {TRUE}, track : MatchTracks, cands : CandLists,
                     exact_only : BOOLEAN]
  /\ match_return = NoReturn
  /\ sleeps = <<>>
  /\ text_call = [called |-> FALSE]
  /\ text_return = NoReturn
  /\ rerun = NoRerun

SearchWithQuery ==
  /\ pc = "match"
  /\ ~match_return.returned
  /\ match_return' =
       [returned |-> TRUE,
        value    |-> search_with_query(match_call.track, match_call.cands,
                                       match_call.exact_only)]
  /\ UNCHANGED << run_vars, tail_vars, func_script, retry_attempt, func_calls,
                  wrapper_return, match_call, sleeps, text_call, text_return, rerun >>

NextMatch == SearchWithQuery

SpecMatch == InitMatch /\ [][NextMatch]_vars

(***************************************************************************)
(* The matching passes called with texts that are or normalize to the      *)
(* empty string: a source track whose artist or title is punctuation only, *)
(* a candidate without an artist, a candidate without a name.              *)
(***************************************************************************)
EmptyTracks ==
  Tracks \cup { [artist |-> <<"!">>, title |-> <<"x">>],
                [artist |-> <<"a">>, title |-> <<"!">>] }

\* The candidates of the catalog, one with artist None and one with name "".
EmptyCands ==
  {Catalog[i] : i \in CatalogIds}
    \cup { [id |-> Len(Catalog) + 1, has_artist |-> FALSE, artist |-> <<>>,
            name |-> <<"x">>],
           [id |-> Len(Catalog) + 2, has_artist |-> TRUE, artist |-> <<"a">>,
            name |-> <<>>] }

InitMatchEmpty ==
  /\ NoRun
  /\ pc = "match"
  /\ func_script = <<>>
  /\ retry_attempt = 0
  /\ func_calls = 0
  /\ wrapper_return = NoReturn
  /\ match_call \in [called : {TRUE}, track : EmptyTracks,
                     cands : SeqsUpTo(EmptyCands, MaxCands), exact_only : BOOLEAN]
  /\ match_return = NoReturn
  /\ sleeps = <<>>
  /\ text_call = [called |-> FALSE]
  /\ text_return = NoReturn
  /\ rerun = NoRerun

SpecMatchEmpty == InitMatchEmpty /\ [][NextMatch]_vars

(***************************************************************************)
(* search_track on its own: one call for a track, with the candidate list  *)
(* session.search returns for each of its queries fixed beforehand and no  *)
(* call raising.                                                           *)
(***************************************************************************)
\* The answers of the provider: a candidate list for each query of the track.
AnswersOf(track) == [1..Len(StrategiesOf[track]) -> CandLists]

InitSearch ==
  /\ NoRun
  /\ pc = "search_track"
  /\ func_script = <<>>
  /\ retry_attempt = 0
  /\ func_calls = 0
  /\ wrapper_return = NoReturn
  /\ \E track \in Tracks, e \in BOOLEAN :
       \E answers \in AnswersOf(track) :
         match_call = [called |-> TRUE, track |-> track, exact_only |-> e,
                       answers |-> answers, future |-> Running(1, 1, TRUE)]
  /\ match_return = NoReturn
  /\ sleeps = <<>>
  /\ text_call = [called |-> FALSE]
  /\ text_return = NoReturn
  /\ rerun = NoRerun

\* One turn of "for query in unique_strategies" (lines 138-142): the query is
\* searched, and its result is returned if there is one.
SearchTrack ==
  /\ pc = "search_track"
  /\ ~match_return.returned
  /\ LET f      == match_call.future
         found  == search_with_query(match_call.track, match_call.answers[f.strategy],
                                     match_call.exact_only)
         onward == search_track_next(f, Len(StrategiesOf[match_call.track]),
                                     wrapper_attempt(f.attempt, FALSE, found), FALSE)
     IN /\ match_call' = [match_call EXCEPT !.future = onward]
        /\ match_return' = IF onward.st = "done"
                           THEN [returned |-> TRUE, value |-> onward.result]
                           ELSE match_return
  /\ UNCHANGED << run_vars, tail_vars, func_script, retry_attempt, func_calls,
                  wrapper_return, sleeps, text_call, text_return, rerun >>

NextSearch == SearchTrack

SpecSearch == InitSearch /\ [][NextSearch]_vars

(***************************************************************************)
(* normalize, normalize_for_compare and make_track_key on their own: the   *)
(* functions are applied to an artist and a title, and then once more to   *)
(* what they returned.                                                     *)
(***************************************************************************)
\* The characters of the texts: a lower-case and an upper-case letter, the
\* blank and a punctuation mark.
TextChars == {"a", "A", " ", "!"}
Texts == SeqsUpTo(TextChars, MaxText)

\* What the three functions return for an artist and a title.
Normalized(artist, title) ==
  [ artist  |-> normalize(artist),
    title   |-> normalize(title),
    compare |-> normalize_for_compare(title),
    key     |-> make_track_key(artist, title) ]

InitNormalize ==
  /\ NoRun
  /\ pc = "normalize"
  /\ func_script = <<>>
  /\ retry_attempt = 0
  /\ func_calls = 0
  /\ wrapper_return = NoReturn
  /\ match_call = [called |-> FALSE]
  /\ match_return = NoReturn
  /\ sleeps = <<>>
  /\ text_call \in [called : {TRUE}, artist : Texts, title : Texts]
  /\ text_return = NoReturn
  /\ rerun = NoRerun

Normalize ==
  /\ pc = "normalize"
  /\ text_return' = [returned |-> TRUE, again |-> FALSE,
                     once  |-> Normalized(text_call.artist, text_call.title),
                     twice |-> Normalized(<<>>, <<>>)]
  /\ pc' = "normalized"
  /\ UNCHANGED << playlists, cache, playlist, exact_only, fuzzy_selector,
                  tidal_playlist, existing_keys, is_delta, tracks_to_sync, skipped,
                  futures, results, search_results, found_track_ids, fuzzy_matches,
                  not_found_tracks, stats, result, raised, dest0, created, listing_fetches,
                  fetch_failed, find_failed, batch, add_failed, menu_result >>
  /\ UNCHANGED << tail_vars, func_script, retry_attempt, func_calls,
                  wrapper_return, match_call, match_return, sleeps, text_call, rerun >>

NormalizeAgain ==
  /\ pc = "normalized"
  /\ text_return' =
       [text_return EXCEPT
          !.again = TRUE,
          !.twice = [ artist  |-> normalize(text_return.once.artist),
                      title   |-> normalize(text_return.once.title),
                      compare |-> normalize_for_compare(text_return.once.compare),
                      key     |-> make_track_key(text_return.once.artist,
                                                 text_return.once.title) ]]
  /\ pc' = "done"
  /\ UNCHANGED << playlists, cache, playlist, exact_only, fuzzy_selector,
                  tidal_playlist, existing_keys, is_delta, tracks_to_sync, skipped,
                  futures, results, search_results, found_track_ids, fuzzy_matches,
                  not_found_tracks, stats, result, raised, dest0, created, listing_fetches,
                  fetch_failed, find_failed, batch, add_failed, menu_result >>
  /\ UNCHANGED << tail_vars, func_script, retry_attempt, func_calls,
                  wrapper_return, match_call, match_return, sleeps, text_call, rerun >>

NextNormalize == Normalize \/ NormalizeAgain

SpecNormalize == InitNormalize /\ [][NextNormalize]_vars

(***************************************************************************)
(* classify_match on its own: one call with the artist and the title of    *)
(* the original track and the artist and the title of the track found.     *)
(***************************************************************************)
\* Artists of no, one, two and three words, and titles that are equal after
\* normalization, contained in one another, or neither.
ClassifyArtists ==
  { <<>>, <<"a">>, <<"A", "!">>, <<"a", " ", "b">>, <<"b", " ", "a">>,
    <<"a", " ", "b", " ", "c">>, <<"c">> }
ClassifyTitles ==
  { <<>>, <<"x">>, <<"X", "!">>, <<"x", " ", "y">>, <<"y">> }

InitClassify ==
  /\ NoRun
  /\ pc = "classify"
  /\ func_script = <<>>
  /\ retry_attempt = 0
  /\ func_calls = 0
  /\ wrapper_return = NoReturn
  /\ match_call = [called |-> FALSE]
  /\ match_return = NoReturn
  /\ sleeps = <<>>
  /\ text_call \in [called : {TRUE}, artist : ClassifyArtists, title : ClassifyTitles,
                    found_artist : ClassifyArtists, found_title : ClassifyTitles]
  /\ text_return = NoReturn
  /\ rerun = NoRerun

ClassifyMatch ==
  /\ pc = "classify"
  /\ text_return' =
       [returned |-> TRUE,
        quality  |-> classify_match([artist |-> text_call.artist,
                                     title  |-> text_call.title],
                                    text_call.found_artist, text_call.found_title)]
  /\ pc' = "done"
  /\ UNCHANGED << playlists, cache, playlist, exact_only, fuzzy_selector,
                  tidal_playlist, existing_keys, is_delta, tracks_to_sync, skipped,
                  futures, results, search_results, found_track_ids, fuzzy_matches,
                  not_found_tracks, stats, result, raised, dest0, created, listing_fetches,
                  fetch_failed, find_failed, batch, add_failed, menu_result >>
  /\ UNCHANGED << tail_vars, func_script, retry_attempt, func_calls,
                  wrapper_return, match_call, match_return, sleeps, text_call, rerun >>

NextClassify == ClassifyMatch

SpecClassify == InitClassify /\ [][NextClassify]_vars

(***************************************************************************)
(* Vocabulary of the properties.                                           *)
(***************************************************************************)
Range(s) == {s[k] : k \in DOMAIN s}

\* The key set of the destination playlist as it was when the run started.
DestKeys == track_keys(dest0)

\* The key of the p-th source track, and of the candidate with a provider id.
SourceKey(p) == make_track_key(playlist[p].artist, playlist[p].title)
CandKey(tidal_id) == found_key_of(Catalog[tidal_id])

\* The loop of lines 156-186 has run / the review of lines 190-214 has run.
Partitioned ==
  stats.present /\ pc \in {"review", "create", "add", "like", "cleanup", "return", "done"}
Reviewed ==
  stats.present /\ pc \in {"create", "add", "like", "cleanup", "return", "done"}

\* The listing of the destination was read from the provider without a failure.
ListingRead == ~fetch_failed /\ ~find_failed

\* The number of searches that ended without a match.
NoneCount == Cardinality({j \in DOMAIN search_results : search_results[j].result = None})

\* The match type of the search result a pending match was built from.
MatchTypeOf(match) == search_results[match.index + 1].result.match_type

(***************************************************************************)
(* C1.  Every source track whose key is in the destination's key set at    *)
(* the start of the run is left out of the search, counted in              *)
(* skipped_tracks, never put in not_found_tracks, and no candidate with    *)
(* its key is in the batch added to the destination.                       *)
(***************************************************************************)
PresentCount == Cardinality({p \in DOMAIN playlist : SourceKey(p) \in DestKeys})

C1_PresentTracksSkipped ==
  \A p \in DOMAIN playlist :
    SourceKey(p) \in DestKeys =>
      /\ p \notin Range(tracks_to_sync)
      /\ p \notin Range(not_found_tracks)
      /\ \A k \in DOMAIN batch.ids : CandKey(batch.ids[k]) # SourceKey(p)
      /\ result.returned => result.skipped_tracks >= PresentCount

\* The same statement for the runs that did read the listing: it holds, so C1
\* fails only through the listing failure of C9.
C1_PresentTracksSkippedWhenRead == ListingRead => C1_PresentTracksSkipped

(***************************************************************************)
(* C2.  The batch added to the destination holds no candidate whose key    *)
(* is in the destination's key set at the start of the run, and no two     *)
(* candidates with the same key.  Stated for the runs that read the        *)
(* listing, so that a violation is not the listing failure of C9.          *)
(***************************************************************************)
C2_BatchDeduplicated ==
  (batch.issued /\ ListingRead) =>
    /\ \A k \in DOMAIN batch.ids : CandKey(batch.ids[k]) \notin DestKeys
    /\ \A j, k \in DOMAIN batch.ids :
         j # k => CandKey(batch.ids[j]) # CandKey(batch.ids[k])

\* The part of C2 that the code keeps: nothing already listed is added again.
C2_NothingListedAddedAgain ==
  (batch.issued /\ ListingRead) =>
    \A k \in DOMAIN batch.ids : CandKey(batch.ids[k]) \notin DestKeys

PendingIndices == {fuzzy_matches[k].index : k \in DOMAIN fuzzy_matches}

IsNewExact(j) ==
  LET res == search_results[j].result
  IN res # None /\ res.match_type = "EXACT" /\ CandKey(res.track) \notin DestKeys

NewExactCount == Cardinality({j \in DOMAIN search_results : IsNewExact(j)})

C4_ExactAutoAccepted ==
  Partitioned =>
    /\ \A j \in DOMAIN search_results :
         IsNewExact(j) =>
           /\ search_results[j].result.track \in Range(found_track_ids)
           /\ (j - 1) \notin PendingIndices
           /\ search_results[j].track \notin Range(not_found_tracks)
           /\ batch.issued => search_results[j].result.track \in Range(batch.ids)
           /\ (pc \in {"return", "done"} /\ raised = "") => batch.issued
    /\ stats.exact >= NewExactCount
    /\ Len(found_track_ids) >= stats.exact
    /\ result.returned =>
         /\ result.match_stats.exact = stats.exact
         /\ result.found_tracks = Len(found_track_ids)

\* A delta run that read the listing returned, after adding an Exact match.
C4_ExactAdded ==
  /\ result.returned
  /\ dest0 # <<>>
  /\ ListingRead
  /\ batch.issued
  /\ \E j \in DOMAIN search_results : IsNewExact(j)

(***************************************************************************)
(* C5.  Without a review callback every pending match is accepted: its     *)
(* candidate id is in found_track_ids and in the batch added, and its      *)
(* track is not put in not_found_tracks.                                   *)
(***************************************************************************)
C5_NoSelectorAcceptsAll ==
  (Reviewed /\ ~fuzzy_selector) =>
    /\ \A k \in DOMAIN fuzzy_matches :
         /\ fuzzy_matches[k].tidal_id \in Range(found_track_ids)
         /\ fuzzy_matches[k].original \notin Range(not_found_tracks)
         /\ batch.issued => fuzzy_matches[k].tidal_id \in Range(batch.ids)
         /\ (pc \in {"return", "done"} /\ raised = "") => batch.issued
    /\ Len(found_track_ids) = stats.exact + Len(fuzzy_matches)
    /\ Len(not_found_tracks) = NoneCount
    /\ stats.fuzzy_good + stats.fuzzy_medium + stats.fuzzy_bad = Len(fuzzy_matches)

\* A run without a callback returned after adding a pending match.
C5_PendingAdded ==
  /\ ~fuzzy_selector
  /\ fuzzy_matches # <<>>
  /\ batch.issued
  /\ result.returned

(***************************************************************************)
(* C6.  With a review callback and a pending list that is not empty, each  *)
(* pending match is in exactly one place: in found_track_ids when the      *)
(* callback selected it, in not_found_tracks when it did not.              *)
(***************************************************************************)
\* The return value of the callback, from the menu result that was recorded.
Chosen == select_fuzzy_matches(fuzzy_matches, menu_result)

ChosenCount == Cardinality({k \in DOMAIN fuzzy_matches : fuzzy_matches[k].index \in Chosen})

C6_SelectorPlacesEachOnce ==
  (Reviewed /\ menu_result.shown) =>
    /\ \A k \in DOMAIN fuzzy_matches :
         LET match == fuzzy_matches[k]
         IN IF match.index \in Chosen
            THEN /\ match.tidal_id \in Range(found_track_ids)
                 /\ match.original \notin Range(not_found_tracks)
            ELSE Cardinality({n \in DOMAIN not_found_tracks :
                                not_found_tracks[n] = match.original}) = 1
    /\ Len(found_track_ids) = stats.exact + ChosenCount
    /\ Len(not_found_tracks) = NoneCount + (Len(fuzzy_matches) - ChosenCount)

\* The callback selected one pending match and left another, and the run returned.
C6_OneSelectedOneLeft ==
  /\ result.returned
  /\ menu_result.shown
  /\ ~menu_result.none
  /\ ChosenCount > 0
  /\ ChosenCount < Len(fuzzy_matches)

(***************************************************************************)
(* C7.  A review menu that returns None (nothing selected, or interrupted) *)
(* is an empty selection: every pending match goes to not_found_tracks,    *)
(* the run is not aborted, and the exact matches are still added.          *)
(***************************************************************************)
C7_NoneIsEmptySelection ==
  (menu_result.shown /\ menu_result.none) =>
    /\ Reviewed
    /\ raised \in {"", "create_playlist"}
    /\ \A k \in DOMAIN fuzzy_matches :
         fuzzy_matches[k].original \in Range(not_found_tracks)
    /\ Len(found_track_ids) = stats.exact
    /\ stats.fuzzy_good + stats.fuzzy_medium + stats.fuzzy_bad = 0
    /\ batch.issued => Len(batch.ids) = stats.exact
    /\ (pc \in {"return", "done"} /\ raised = "" /\ stats.exact > 0) => batch.issued
    /\ (pc = "done" /\ raised = "") =>
         (result.returned /\ result.found_tracks = stats.exact)

\* The menu returned None, the exact match of another track was added and the
\* run returned its result.
C7_NoneThenExactAdded ==
  /\ menu_result.shown
  /\ menu_result.none
  /\ stats.exact > 0
  /\ batch.issued
  /\ result.returned

(***************************************************************************)
(* C8.  A search that fails on every attempt, or that exhausts its queries *)
(* without a match, yields no result: the track is in not_found_tracks,    *)
(* nothing is raised for it, and every other track of the run has its      *)
(* outcome and is handled as usual.                                        *)
(***************************************************************************)
C8_FailedSearchIsNotFound ==
  /\ \A i \in DOMAIN futures :
       (futures[i].st \in {"done", "collected"} /\ futures[i].all_failed) =>
         futures[i].result = None
  /\ pc = "search" => raised = ""
  /\ Partitioned =>
       /\ Len(search_results) = Len(tracks_to_sync)
       /\ raised \in {"", "create_playlist"}
       /\ \A j \in DOMAIN search_results :
            LET res == search_results[j].result
            IN /\ search_results[j].track = tracks_to_sync[j]
               /\ res = futures[j].result
               /\ res = None => search_results[j].track \in Range(not_found_tracks)
               /\ res # None =>
                    \/ CandKey(res.track) \in existing_keys
                    \/ res.track \in Range(found_track_ids)
                    \/ (j - 1) \in PendingIndices

\* Every search call of one track raised, the track was reported not found, the
\* match of another track was added, and the run returned.
C8_OneFailedOneAdded ==
  /\ result.returned
  /\ batch.issued
  /\ \E i \in DOMAIN futures :
       /\ futures[i].all_failed
       /\ tracks_to_sync[i] \in Range(result.not_found_tracks)

(***************************************************************************)
(* C9.  When fetching the listing of the destination fails, the run fails: *)
(* it does not go on with an empty key set, searches nothing, adds         *)
(* nothing and returns no result.                                          *)
(***************************************************************************)
C9_FetchFailureFatal ==
  fetch_failed =>
    /\ raised # ""
    /\ futures = <<>>
    /\ ~batch.issued
    /\ ~result.returned

(***************************************************************************)
(* C10.  When creating the destination playlist or adding the batch to it  *)
(* fails, the run fails: no result is returned that reports the tracks of  *)
(* the batch as added.                                                     *)
(***************************************************************************)
C10_FailedWriteNotReported ==
  (add_failed \/ raised = "create_playlist") =>
    ~(result.returned /\ result.found_tracks > 0)

\* The part of C10 that the code keeps: a failure of create_playlist leaves
\* sync_playlist as an exception.
C10_FailedCreateRaises ==
  raised = "create_playlist" => (pc = "done" /\ ~result.returned /\ ~batch.issued)

(***************************************************************************)
(* C11.  When a removal call of the cleanup fails, the failure leaves      *)
(* sync_playlist, and removed_tracks of a returned result is the number of *)
(* destination tracks that were removed, a failed removal not counted.     *)
(***************************************************************************)
RemovedCount == Cardinality({k \in DOMAIN removal_calls : removal_calls[k].ok})

C11_FailedRemovalNotCounted ==
  result.returned =>
    /\ \A k \in DOMAIN removal_calls : removal_calls[k].ok
    /\ result.removed_tracks = RemovedCount

\* What the code keeps: removed_tracks is the number of removals requested.
C11_RequestedRemovalsCounted ==
  result.returned => result.removed_tracks = Len(removal_calls)

(***************************************************************************)
(* C12.  Whatever the order in which the searches complete,                *)
(* _search_parallel returns one (track, result) pair per input track, the  *)
(* i-th pair holding the i-th input track and the result of its search.    *)
(***************************************************************************)
SearchReturned == pc = "partition" \/ Partitioned

C12_ResultsInInputOrder ==
  SearchReturned =>
    /\ Len(search_results) = Len(tracks_to_sync)
    /\ \A i \in DOMAIN search_results :
         /\ search_results[i].track = tracks_to_sync[i]
         /\ search_results[i].result = futures[i].result

\* The search of the second track completed before the search of the first.
C12_CompletedOutOfOrder ==
  /\ SearchReturned
  /\ Len(results) = 2
  /\ results[1].track = tracks_to_sync[2]
  /\ results[2].track = tracks_to_sync[1]
  /\ results[1].result # results[2].result

(***************************************************************************)
(* C13.  The retry wrapper calls the wrapped search at most max_attempts   *)
(* times, stops at the first call that does not raise and returns the      *)
(* value of that call: a search that raises twice and succeeds on the      *)
(* third attempt yields the success.                                       *)
(***************************************************************************)
\* The calls of the script, within the first max_attempts, that do not raise.
Succeeding == {k \in 1..max_attempts : ~func_script[k].raises}

FirstSucceeding == CHOOSE k \in Succeeding : \A j \in Succeeding : k <= j

C13_ReturnsFirstSuccess ==
  pc = "wrapper" =>
    /\ func_calls <= max_attempts
    /\ retry_attempt <= max_attempts
    /\ (~wrapper_return.returned /\ func_calls > 0) =>
         (func_calls < max_attempts /\ \A k \in 1..func_calls : func_script[k].raises)
    /\ (wrapper_return.returned /\ Succeeding # {}) =>
         /\ func_calls = FirstSucceeding
         /\ wrapper_return.value = func_script[FirstSucceeding].value

\* func raised twice and returned a SearchResult on the third attempt, which
\* the wrapper returned.
C13_ThirdAttemptSucceeds ==
  /\ pc = "wrapper"
  /\ wrapper_return.returned
  /\ func_script[1].raises
  /\ func_script[2].raises
  /\ ~func_script[3].raises
  /\ func_calls = 3
  /\ wrapper_return.value # None
  /\ wrapper_return.value = func_script[3].value

(***************************************************************************)
(* C14.  When every one of the max_attempts attempts raises, the wrapper   *)
(* does not raise: it returns None, the value _search_with_query returns   *)
(* for a search that found nothing.                                        *)
(***************************************************************************)
C14_ExhaustedReturnsNone ==
  (pc = "wrapper" /\ wrapper_return.returned) =>
    /\ ~wrapper_return.raised
    /\ Succeeding = {} =>
         /\ func_calls = max_attempts
         /\ wrapper_return.value = None
         /\ \A t \in Tracks, e \in BOOLEAN :
              wrapper_return.value = search_with_query(t, <<>>, e)

\* All the attempts raised and the wrapper has returned.
C14_AllAttemptsRaised ==
  /\ pc = "wrapper"
  /\ wrapper_return.returned
  /\ Succeeding = {}
  /\ func_calls = max_attempts

(***************************************************************************)
(* C15.  Within one candidate list the exact pass comes first, then the    *)
(* fuzzy pass, then the title-only pass, and the first candidate in list   *)
(* order of the first pass that accepts one is returned: an exact match is *)
(* returned even when a candidate that only the fuzzy pass accepts comes   *)
(* before it.                                                              *)
(***************************************************************************)
\* The positions of the candidate list of the call that each pass accepts.
ExactHits ==
  {i \in DOMAIN match_call.cands : ExactMatch(match_call.track, match_call.cands[i])}
FuzzyHits ==
  {i \in DOMAIN match_call.cands : FuzzyMatchPass(match_call.track, match_call.cands[i])}
TitleHits ==
  {i \in DOMAIN match_call.cands : TitleOnlyMatch(match_call.track, match_call.cands[i])}

Least(S) == CHOOSE i \in S : \A j \in S : i <= j

C15_PassesInOrder ==
  (pc = "match" /\ match_return.returned) =>
    LET value == match_return.value
        cands == match_call.cands
    IN IF ExactHits # {}
       THEN value = [track |-> cands[Least(ExactHits)].id, match_type |-> "EXACT"]
       ELSE IF match_call.exact_only THEN value = None
       ELSE IF FuzzyHits # {}
       THEN value = [track |-> cands[Least(FuzzyHits)].id, match_type |-> "FUZZY"]
       ELSE IF TitleHits # {}
       THEN value = [track |-> cands[Least(TitleHits)].id, match_type |-> "TITLE_ONLY"]
       ELSE value = None

\* The first candidate is accepted by the fuzzy pass only, the second by the
\* exact pass, and the second was returned as Exact.
C15_ExactBehindFuzzy ==
  /\ pc = "match"
  /\ match_return.returned
  /\ ~match_call.exact_only
  /\ Len(match_call.cands) = 2
  /\ 1 \in FuzzyHits \ ExactHits
  /\ 2 \in ExactHits
  /\ match_return.value = [track |-> match_call.cands[2].id, match_type |-> "EXACT"]

(***************************************************************************)
(* C16.  With exact_only every search outcome is Exact or no result, for   *)
(* every track and candidate list; so nothing is pending review and the    *)
(* review callback is never called.                                        *)
(***************************************************************************)
C16_ExactOnlyNoReview ==
  exact_only =>
    /\ \A t \in Tracks : \A r \in SearchOutcomes[t, TRUE] :
         r.match_type \in {"EXACT", "None"}
    /\ \A i \in DOMAIN futures : futures[i].result.match_type \in {"EXACT", "None"}
    /\ fuzzy_matches = <<>>
    /\ ~menu_result.shown
    /\ stats.fuzzy_good + stats.fuzzy_medium + stats.fuzzy_bad = 0

\* A run in exact_only mode with a selector supplied returned its result: one
\* search was answered without an exact match, another gave an exact match.
C16_ExactOnlyRunReturned ==
  /\ exact_only
  /\ fuzzy_selector
  /\ result.returned
  /\ \E i \in DOMAIN futures : futures[i].result = None /\ ~futures[i].all_failed
  /\ \E i \in DOMAIN futures : futures[i].result.match_type = "EXACT"

(***************************************************************************)
(* C17.  When the cleanup is requested, a run removes exactly the accepted *)
(* orphans: without a cleanup selector no destination track whose key is   *)
(* not a key of the source remains after the run, with a selector exactly  *)
(* the selected orphans are removed, and no destination track whose key is *)
(* a key of the source is removed.                                         *)
(***************************************************************************)
\* The destination listing at the provider, empty without a destination.
Destination == IF tidal_playlist = 0 THEN <<>> ELSE playlists[tidal_playlist]

\* The indices of the removal calls that removed a track.
RemovedIndices == {removal_calls[k].idx : k \in {j \in DOMAIN removal_calls : removal_calls[j].ok}}

C17_AcceptedOrphansRemoved ==
  (cleanup_deleted /\ result.returned) =>
    /\ ~cleanup_selector =>
         \A k \in DOMAIN Destination : tidal_key(Destination[k]) \in yandex_keys
    /\ cleanup_selector => RemovedIndices = Range(cleanup_call.indices_to_remove)
    /\ \A k \in DOMAIN removal_calls :
         removal_calls[k].ok => tidal_key(removal_calls[k].track) \notin yandex_keys

\* What the code keeps: a removal call is made for each accepted orphan and for
\* nothing else, and a track that is removed has no key of the source.
C17_OnlyAcceptedOrphansCalled ==
  /\ {removal_calls[k].idx : k \in DOMAIN removal_calls}
       = Range(cleanup_call.indices_to_remove)
  /\ Range(cleanup_call.indices_to_remove) \subseteq Range(cleanup_call.orphaned)
  /\ (cleanup_call.called /\ ~cleanup_selector) =>
       cleanup_call.indices_to_remove = cleanup_call.orphaned
  /\ \A k \in DOMAIN removal_calls :
       removal_calls[k].ok => tidal_key(removal_calls[k].track) \notin yandex_keys

(***************************************************************************)
(* C18.  The removal calls are issued in strictly descending order of      *)
(* index, [2, 5, 1] as 5, 2, 1, so every call that removes a track removes *)
(* the track that had that index in the listing the orphans were computed  *)
(* from.                                                                   *)
(***************************************************************************)
C18_RemovalsDescending ==
  /\ sorted_reverse(<<2, 5, 1>>) = <<5, 2, 1>>
  /\ \A k \in DOMAIN removal_calls :
       /\ \A j \in 1..(k - 1) : removal_calls[j].idx > removal_calls[k].idx
       /\ removal_calls[k].ok =>
            removal_calls[k].track
              = cleanup_call.tidal_tracks[removal_calls[k].idx + 1]

\* Two orphans were removed, the one at the higher index first, and a track
\* of the listing was kept.
C18_TwoRemoved ==
  /\ result.returned
  /\ Len(removal_calls) = 2
  /\ removal_calls[1].ok
  /\ removal_calls[2].ok
  /\ Len(cleanup_call.tidal_tracks) = 3
  /\ Len(Destination) = 1

(***************************************************************************)
(* C19.  A run issues at most one playlist.add call, with all the accepted *)
(* track ids, and a destination playlist that was not found is created     *)
(* once, before the add call.                                              *)
(***************************************************************************)
\* sync_playlist is past its "create playlist" step.
PastCreate ==
  \/ pc \in {"add", "like", "cleanup", "return"}
  \/ pc = "done" /\ result.returned /\ result.match_stats.present

C19_BatchState ==
  /\ batch.issued =>
       /\ batch.ids = found_track_ids
       /\ found_track_ids # <<>>
       /\ tidal_playlist \in DOMAIN playlists
  /\ created <= 1
  /\ (PastCreate /\ Len(playlists) - created = 0) => created = 1
  /\ (created = 1 /\ ~find_failed) => Len(playlists) = 1

C19_BatchStep ==
  /\ batch.issued => batch' = batch
  /\ batch' # batch => (pc = "add" /\ tidal_playlist # 0)
  /\ created' # created => (pc = "create" /\ tidal_playlist = 0 /\ ~batch.issued)

C19_OneBatchAfterCreate == []C19_BatchState /\ [][C19_BatchStep]_vars

\* The destination was not there, was created, and the one add call added two
\* accepted tracks to it.
C19_CreatedThenAdded ==
  /\ result.returned
  /\ ~find_failed
  /\ created = 1
  /\ batch.issued
  /\ Len(batch.ids) = 2
  /\ playlists = <<batch.ids>>

(***************************************************************************)
(* C20.  When the favourites are requested, after the run every track of   *)
(* the destination playlist is a favourite, add_track is called only for   *)
(* ids that were not favourites already, and the favourites are fetched    *)
(* from the provider at most once in the run.                              *)
(***************************************************************************)
C20_DestinationFavorited ==
  /\ (like_tracks /\ result.returned) =>
       \A k \in DOMAIN Destination : Destination[k] \in favorites
  /\ \A k \in DOMAIN like_call.to_like : like_call.to_like[k] \notin favorites0
  /\ liked_fetches <= 1

\* What the code keeps: the favourites are fetched at most once, add_track is
\* called only for tracks of the listing, a track becomes a favourite only by
\* such a call, and liked_tracks counts the calls that succeeded.
C20_FavoritesFetchedOnce ==
  /\ liked_fetches <= 1
  /\ Range(like_call.to_like) \subseteq Range(like_call.track_ids)
  /\ favorites0 \subseteq favorites
  /\ favorites \ favorites0 \subseteq Range(like_call.to_like)
  /\ result.returned => result.liked_tracks = Cardinality(like_call.liked)

(***************************************************************************)
(* C21.  normalize is idempotent, normalize(normalize(x)) = normalize(x)   *)
(* for every text x, and so is normalize_for_compare; the key made from    *)
(* normalized fields is the key made from the raw fields.                  *)
(***************************************************************************)
C21_NormalizeIdempotent ==
  (pc = "done" /\ text_return.returned /\ text_return.again) =>
    /\ text_return.twice.artist = text_return.once.artist
    /\ text_return.twice.title = text_return.once.title
    /\ text_return.twice.compare = text_return.once.compare
    /\ text_return.twice.key = text_return.once.key

\* A title with an upper-case letter, punctuation and a blank at its end was
\* normalized twice, and the first call changed it.
C21_NormalizedTwice ==
  /\ pc = "done"
  /\ text_return.again
  /\ text_call.title = <<"A", "!", " ">>
  /\ text_return.once.title = <<"a">>
  /\ text_return.twice.title = <<"a">>

(***************************************************************************)
(* C22.  The list sync_playlist passes to the fuzzy selector is the whole  *)
(* pending list sorted by quality: every GOOD match before every MEDIUM    *)
(* match before every BAD match, matches of one quality in input order.    *)
(***************************************************************************)
\* A list of matches is sorted by quality, input order kept within a quality.
SortedByQuality(matches) ==
  \A j, k \in DOMAIN matches :
    j < k =>
      \/ quality_order(matches[j].quality) < quality_order(matches[k].quality)
      \/ /\ matches[j].quality = matches[k].quality
         /\ matches[j].index < matches[k].index

C22_SelectorGetsSortedList ==
  menu_result.shown => SortedByQuality(fuzzy_matches)

\* What the code keeps: the selector is given every pending match in input
\* order, and the menu that select_fuzzy_matches shows lists them all sorted by
\* quality.
C22_MenuSortedByQuality ==
  menu_result.shown =>
    /\ \A j, k \in DOMAIN fuzzy_matches :
         j < k => fuzzy_matches[j].index < fuzzy_matches[k].index
    /\ SortedByQuality(sorted_matches(fuzzy_matches))
    /\ Len(sorted_matches(fuzzy_matches)) = Len(fuzzy_matches)
    /\ Range(sorted_matches(fuzzy_matches)) = Range(fuzzy_matches)

(***************************************************************************)
(* C23.  After failed attempt k, k < max_attempts, the wrapper sleeps d*j, *)
(* d = min(base * 2^(k-1), max_delay) and the jitter j in [0.5, 1.5): d is *)
(* never above max_delay, 1 s then 2 s by default; there is no sleep after *)
(* the last failed attempt and none after a success.                       *)
(***************************************************************************)
C23_BackoffSleeps ==
  /\ \A k \in 1..(2 * max_attempts) :
       backoff_delay(k, base_delay, max_delay) <= max_delay
  /\ backoff_delay(max_attempts + 2, base_delay, max_delay) = max_delay
  /\ \A i \in DOMAIN sleeps :
       /\ sleeps[i].attempt = i
       /\ i < max_attempts
       /\ func_script[i].raises
       /\ sleeps[i].delay = base_delay * (2 ^ (i - 1))
       /\ sleeps[i].delay <= max_delay
       /\ 2 * sleeps[i].jitter >= 1000
       /\ 2 * sleeps[i].jitter < 3000
       /\ 2 * sleeps[i].slept >= sleeps[i].delay
       /\ 2 * sleeps[i].slept < 3 * sleeps[i].delay
  /\ pc = "wrapper" =>
       Len(sleeps) = IF wrapper_return.returned THEN func_calls - 1 ELSE func_calls

\* Every attempt failed: the wrapper slept after the first and after the second
\* attempt, a second and two seconds before the jitter, and returned.
C23_SleptTwice ==
  /\ pc = "wrapper"
  /\ wrapper_return.returned
  /\ func_calls = max_attempts
  /\ Len(sleeps) = 2
  /\ sleeps[1].delay = 1000
  /\ sleeps[2].delay = 2000
  /\ sleeps[1].jitter = 500
  /\ sleeps[2].jitter = 1499

(***************************************************************************)
(* C24.  The queries of a track are tried in the order they were generated *)
(* in, each under the retry wrapper: the result of the first query that    *)
(* gives one is the result of the track and no later query is made; None   *)
(* is the result only after the last query gave no match.                  *)
(***************************************************************************)
\* One step of the search of the i-th submitted track.
SearchStepInOrder(i) ==
  LET f       == futures[i]
      g       == futures'[i]
      queries == Len(StrategiesOf[playlist[tracks_to_sync[i]]])
  IN /\ f.st = "queued" => (f.strategy = 1 /\ f.attempt = 1)
     /\ f.st = "done" => (g.result = f.result /\ g.st # "running")
     /\ g.st = "running" =>
          \/ g.strategy = f.strategy /\ g.attempt = f.attempt + 1
                                     /\ g.attempt <= max_attempts
          \/ g.strategy = f.strategy + 1 /\ g.attempt = 1 /\ g.strategy <= queries
     /\ (f.st # "done" /\ g.st = "done" /\ g.result = None) => f.strategy = queries

C24_QueriesInOrder ==
  [][\A i \in DOMAIN futures :
       (i \in DOMAIN futures' /\ futures'[i] # futures[i]) => SearchStepInOrder(i)]_vars

\* The first query of a track was given up after three failed attempts and the
\* second query is at its last attempt, while another track has its result.
C24_SecondQueryTried ==
  /\ pc = "search"
  /\ \E i \in DOMAIN futures :
       /\ futures[i].st = "running"
       /\ futures[i].strategy = 2
       /\ futures[i].attempt = max_attempts
       /\ futures[i].all_failed
  /\ \E j \in DOMAIN futures : futures[j].st = "done" /\ futures[j].result # None

(***************************************************************************)
(* C25.  The quality of a match is GOOD when the Jaccard index of the word *)
(* sets of the normalized artists is at least 0.5; else MEDIUM when the    *)
(* normalized titles are equal or one contains the other; else BAD.  The   *)
(* artists {a} and {a, b, c} have index 1/3, so their titles decide.       *)
(***************************************************************************)
\* The word sets of the two artists of the call, and its normalized titles.
ArtistWords == WordSet(normalize(text_call.artist))
FoundWords  == WordSet(normalize(text_call.found_artist))
TitleNorm   == normalize(text_call.title)
FoundNorm   == normalize(text_call.found_title)

\* Jaccard index >= 1/2; the index of two sets one of which is empty is 0.
JaccardAtLeastHalf ==
  /\ ArtistWords \cup FoundWords # {}
  /\ ArtistWords # {} /\ FoundWords # {}
  /\ 2 * Cardinality(ArtistWords \cap FoundWords)
       >= Cardinality(ArtistWords \cup FoundWords)

C25_QualityGrade ==
  (pc = "done" /\ text_return.returned /\ text_call.called) =>
    text_return.quality =
      IF JaccardAtLeastHalf THEN "GOOD"
      ELSE IF \/ TitleNorm = FoundNorm
              \/ IsSubstring(TitleNorm, FoundNorm)
              \/ IsSubstring(FoundNorm, TitleNorm)
           THEN "MEDIUM"
      ELSE "BAD"

\* Artists with one word of two in common are graded GOOD whatever the titles.
C25_HalfIsGood ==
  /\ pc = "done"
  /\ text_return.returned
  /\ text_call.artist = <<"a">>
  /\ text_call.found_artist = <<"b", " ", "a">>
  /\ text_call.title = <<"x">>
  /\ text_call.found_title = <<"y">>
  /\ text_return.quality = "GOOD"

(***************************************************************************)
(* C26.  After an add, a removal or a like through the client the cache of *)
(* the listing, or of the favourites, holds nothing from before it: a      *)
(* cached listing is the listing at the provider and the cached favourites *)
(* are the favourites at the provider, so the next read is fetched anew;   *)
(* and between two changes the listing is fetched at most once.            *)
(***************************************************************************)
C26_CachesFresh ==
  /\ \A k \in DOMAIN cache : k \in DOMAIN playlists /\ cache[k] = playlists[k]
  /\ liked_cache.cached => liked_cache.ids = favorites
  /\ listing_fetches <= 1

C26_ChangeInvalidates ==
  /\ (Len(playlists') = Len(playlists) /\ playlists' # playlists) =>
       (tidal_playlist \notin DOMAIN cache' /\ listing_fetches' = 0)
  /\ favorites' # favorites => ~liked_cache'.cached

C26_CachesInvalidated == []C26_CachesFresh /\ [][C26_ChangeInvalidates]_vars

\* The listing was fetched and cached before the add, the add went through, a
\* track was made a favourite, and the favourites step read the listing anew:
\* the cached listing has the added tracks.
C26_ReadAfterAdd ==
  /\ pc = "cleanup"
  /\ dest0 # <<>>
  /\ ~fetch_failed
  /\ batch.issued
  /\ ~add_failed
  /\ tidal_playlist \in DOMAIN cache
  /\ cache[tidal_playlist] = dest0 \o batch.ids
  /\ listing_fetches = 1
  /\ favorites # favorites0
  /\ ~liked_cache.cached

(***************************************************************************)
(* C27.  is_delta of a result is FALSE when the destination had no tracks  *)
(* when the run started, a new playlist or a playlist without tracks, and  *)
(* TRUE otherwise; the flag is reported only, the tracks searched, added,  *)
(* skipped and not found do not depend on it.                              *)
(***************************************************************************)
C27_DeltaIffDestinationHasTracks ==
  result.returned => (result.is_delta <=> dest0 # <<>>)

\* What the code keeps: is_delta tells that a destination playlist was found,
\* with or without tracks, and the tracks to search are chosen by the keys of
\* the listing alone.
C27_DeltaIffPlaylistFound ==
  /\ result.returned =>
       (result.is_delta <=> (~find_failed /\ Len(playlists) - created > 0))
  /\ pc \notin {"find", "load"} =>
       tracks_to_sync = TracksToSync(playlist, existing_keys)

(***************************************************************************)
(* C28.  The phases of a run are in order: no call that changes the        *)
(* destination (create, add, favourite, remove) is made before every       *)
(* search has completed and the fuzzy selector, when it is called, has     *)
(* returned; the removals of the cleanup come after the add call.          *)
(***************************************************************************)
\* Every submitted search has been joined and its result is in search_results.
SearchesJoined ==
  /\ futures # <<>>
  /\ \A i \in DOMAIN futures : futures[i].st = "collected"
  /\ Len(search_results) = Len(tracks_to_sync)

\* The review is over: the selector has returned if it was to be called.
ReviewOver ==
  /\ pc \in {"create", "add", "like", "cleanup"}
  /\ (fuzzy_matches # <<>> /\ fuzzy_selector) => menu_result.shown

C28_PhaseStep ==
  /\ ( \/ created' # created
       \/ raised' = "create_playlist" /\ raised # "create_playlist"
       \/ batch' # batch
       \/ like_call' # like_call
       \/ removal_calls' # removal_calls
       \/ playlists' # playlists
       \/ favorites' # favorites ) => (SearchesJoined /\ ReviewOver)
  /\ removal_calls' # removal_calls =>
       /\ pc = "cleanup"
       /\ batch' = batch
       /\ found_track_ids # <<>> => batch.issued
  /\ batch' # batch => (removal_calls = <<>> /\ ~like_call.called)

C28_PhasesInOrder == [][C28_PhaseStep]_vars

\* A run went through every phase: the selector was called, the playlist was
\* created, tracks were added, a track was made a favourite and one was removed.
C28_EveryPhaseDone ==
  /\ result.returned
  /\ menu_result.shown
  /\ created = 1
  /\ batch.issued
  /\ like_call.called
  /\ favorites # {}
  /\ \E k \in DOMAIN removal_calls : removal_calls[k].ok


(***************************************************************************)
(* C29: termination of sync_playlist.                                      *)
(***************************************************************************)
\* The number of the invocation of session.search a pending search of a
\* track is at, counting max_attempts invocations for every query before it.
SearchRank(f) == (f.strategy - 1) * max_attempts + f.attempt

\* A pending search is at one of the at most 5 queries of its track and at one
\* of the max_attempts attempts of that query: at invocation 1..15.
SearchBounded ==
  \A i \in DOMAIN futures :
    futures[i].st \in {"queued", "running"} =>
      LET queries == Len(StrategiesOf[playlist[tracks_to_sync[i]]])
      IN /\ queries <= 5
         /\ futures[i].strategy \in 1..queries
         /\ futures[i].attempt \in 1..max_attempts
         /\ SearchRank(futures[i]) \in 1..15

\* Every invocation of session.search ends the search of its track or moves
\* it to a later invocation.
SearchAdvances ==
  \A i \in DOMAIN futures :
    (i \in DOMAIN futures' /\ futures'[i] # futures[i]
       /\ futures[i].st \in {"queued", "running"}) =>
      \/ futures'[i].st = "done"
      \/ /\ futures'[i].st = "running"
         /\ SearchRank(futures'[i]) > SearchRank(futures[i])

\* C29: every run of sync_playlist ends, with a result or an exception, when
\* every remote call and every callback returns; every submitted search has
\* been collected when the results are partitioned; and the search of one
\* track invokes session.search at most 5 queries times 3 attempts = 15 times.
C29_RunTerminates ==
  /\ <>(pc = "done" /\ (result.returned \/ raised # ""))
  /\ [](pc = "partition" => SearchesJoined)
  /\ []SearchBounded
  /\ [][SearchAdvances]_vars

\* The search of a track of five queries is at its fifteenth invocation, every
\* invocation before it having raised.
C29_FifteenthInvocation ==
  \E i \in DOMAIN futures :
    /\ futures[i].st = "running"
    /\ Len(StrategiesOf[playlist[tracks_to_sync[i]]]) = 5
    /\ SearchRank(futures[i]) = 15
    /\ futures[i].all_failed

(***************************************************************************)
(* C30: the counts of a SyncResult.                                        *)
(***************************************************************************)
\* C30: a returned result accounts for every source track once:
\* total_tracks = skipped_tracks + found_tracks + len(not_found_tracks), the
\* tracks reported as not found are distinct tracks of the source, and with
\* match_stats its four counters add up to found_tracks.
C30_CountsConserved ==
  result.returned =>
    /\ result.total_tracks = Len(playlist)
    /\ result.total_tracks = result.skipped_tracks + result.found_tracks
                               + Len(result.not_found_tracks)
    /\ \A k \in DOMAIN result.not_found_tracks :
         /\ result.not_found_tracks[k] \in DOMAIN playlist
         /\ \A j \in DOMAIN result.not_found_tracks :
              result.not_found_tracks[j] = result.not_found_tracks[k] => j = k
    /\ result.match_stats.present =>
         result.match_stats.exact + result.match_stats.fuzzy_good
           + result.match_stats.fuzzy_medium + result.match_stats.fuzzy_bad
           = result.found_tracks

\* A result after a search and a review: one track was found in the
\* destination and skipped, the other was rejected in the review.
C30_SkippedAndRejected ==
  /\ result.returned
  /\ result.match_stats.present
  /\ menu_result.shown
  /\ result.skipped_tracks > Len(playlist) - Len(tracks_to_sync)
  /\ Len(result.not_found_tracks) = 1
  /\ result.total_tracks = 2

(***************************************************************************)
(* C31.  A track that the add call of a run put into the destination is    *)
(* not removed by the cleanup of the same run, also when the key of the    *)
(* accepted candidate is not the key of the source track it stands for.    *)
(***************************************************************************)
\* The index, from 0, of the first track the add call appended: the length of
\* the destination before it, 0 for a playlist the run created.
AddedFrom == IF created > 0 THEN 0 ELSE Len(dest0)

\* The removal calls that removed a track the add call of the run appended.
RemovedAdded ==
  {k \in DOMAIN removal_calls :
     /\ removal_calls[k].ok
     /\ batch.issued /\ ~add_failed
     /\ removal_calls[k].idx >= AddedFrom}

C31_AddedNotRemoved == RemovedAdded = {}

\* What the code keeps: a track of the batch is removed only when its key is
\* not a key of the source, and a track with a source key is never removed.
C31_AddedWithSourceKeyKept ==
  \A k \in DOMAIN removal_calls :
    removal_calls[k].ok => tidal_key(removal_calls[k].track) \notin yandex_keys

(***************************************************************************)
(* C32.  When the candidate list of any query of a track holds a candidate *)
(* the exact pass accepts, search_track returns an EXACT result: a FUZZY   *)
(* or TITLE_ONLY hit of an earlier query does not come before it.          *)
(***************************************************************************)
\* The queries of the searched track whose candidate list has an exact match.
ExactQueries ==
  {q \in DOMAIN match_call.answers :
     FirstMatch(match_call.track, match_call.answers[q], ExactMatch) # 0}

C32_ExactNeverPreempted ==
  (match_return.returned /\ ExactQueries # {}) =>
    match_return.value.match_type = "EXACT"

\* What the code keeps: the result is that of the first query with a result,
\* and in exact_only mode an available exact match is always returned.
C32_FirstQueryWithResult ==
  match_return.returned =>
    LET track     == match_call.track
        of(q)     == search_with_query(track, match_call.answers[q],
                                       match_call.exact_only)
        answering == {q \in DOMAIN match_call.answers : of(q) # None}
    IN /\ answering = {} => match_return.value = None
       /\ answering # {} =>
            match_return.value = of(CHOOSE q \in answering : \A p \in answering : q <= p)
       /\ (match_call.exact_only /\ ExactQueries # {}) =>
            match_return.value.match_type = "EXACT"

(***************************************************************************)
(* C33.  The ids of the add call are in source order: when two source      *)
(* tracks are both added, the id of the earlier one comes first, also when *)
(* one is an exact match and the other an accepted pending match.          *)
(***************************************************************************)
\* The j-th search ended with a candidate that the run accepted: one that is
\* not listed yet and is exact, or pending and accepted in the review.
IsAddedSearch(j) ==
  LET res == search_results[j].result
  IN /\ res # None
     /\ CandKey(res.track) \notin existing_keys
     /\ \/ res.match_type = "EXACT"
        \/ ~fuzzy_selector
        \/ menu_result.shown /\ (j - 1) \in Chosen

\* The candidate ids of the searches that satisfy Keep, in source order.
IdsInSourceOrder(Keep(_)) ==
  LET numbered == [j \in DOMAIN search_results |->
                     [pos |-> j, id |-> search_results[j].result.track]]
      kept     == SelectSeq(numbered, LAMBDA n : Keep(n.pos))
  IN [k \in DOMAIN kept |-> kept[k].id]

C33_BatchInSourceOrder ==
  batch.issued => batch.ids = IdsInSourceOrder(IsAddedSearch)

\* What the code keeps: the batch holds the ids of the exact matches in source
\* order, followed by the ids of the accepted pending matches in source order.
C33_ExactThenAccepted ==
  batch.issued =>
    batch.ids =
      IdsInSourceOrder(LAMBDA j : IsAddedSearch(j)
                                    /\ search_results[j].result.match_type = "EXACT")
        \o IdsInSourceOrder(LAMBDA j : IsAddedSearch(j)
                                    /\ search_results[j].result.match_type # "EXACT")

(***************************************************************************)
(* C34.  The indices the review callback returns are positions in the list *)
(* it was given, as for the callback of the cleanup: a returned position p *)
(* accepts the p-th pending match of that list and no other.               *)
(***************************************************************************)
\* The k-th pending match was accepted in the review.
AcceptedPending(k) == fuzzy_matches[k].original \notin Range(not_found_tracks)

C34_IndicesArePositions ==
  (Reviewed /\ menu_result.shown) =>
    \A k \in DOMAIN fuzzy_matches : AcceptedPending(k) <=> (k - 1) \in Chosen

\* What the code keeps: a returned number accepts the pending match whose
\* index field, its position among the search results, is that number.
C34_IndicesAreSearchPositions ==
  (Reviewed /\ menu_result.shown) =>
    \A k \in DOMAIN fuzzy_matches :
      AcceptedPending(k) <=> fuzzy_matches[k].index \in Chosen

(***************************************************************************)
(* C35.  With like_tracks and cleanup_deleted both set, no track that the  *)
(* cleanup of the run removes from the destination is liked by the run:    *)
(* the likes are applied to the destination as it is after the cleanup.    *)
(***************************************************************************)
\* The ids the run added to the favourites.
LikedByRun == {like_call.to_like[k] : k \in like_call.liked}

C35_RemovedNotLiked ==
  (like_tracks /\ cleanup_deleted) =>
    \A k \in DOMAIN removal_calls :
      (removal_calls[k].ok /\ removal_calls[k].track \notin Range(Destination)) =>
        removal_calls[k].track \notin LikedByRun

\* What the code keeps: the likes are applied to the listing as it is before
\* the cleanup, the listing the orphans are computed from.
C35_LikedBeforeCleanup ==
  (like_call.called /\ cleanup_call.called) =>
    /\ like_call.track_ids = cleanup_call.tidal_tracks
    /\ LikedByRun \subseteq Range(cleanup_call.tidal_tracks)

(***************************************************************************)
(* C36.  create_playlist is called only when the destination has no        *)
(* playlist of the target name: a failed lookup of the playlists does not  *)
(* lead to a second playlist of that name being created and filled.        *)
(***************************************************************************)
\* C36: after a call of create_playlist the created playlist is the only
\* playlist of the target name (every playlist of the model has that name).
C36_CreatedOnlyWhenAbsent == created > 0 => Len(playlists) = 1

\* What the code keeps: create_playlist is called at most once, and only when
\* find_playlist_by_name returned None, for a missing playlist or for a
\* lookup that raised.
C36_CreatedWhenNotFound ==
  /\ created <= 1
  /\ created > 0 => (find_failed \/ Len(playlists) = 1)
  /\ (created > 0 /\ ~find_failed) => Len(playlists) = 1

(***************************************************************************)
(* C37.  Without the cleanup a second run of sync_playlist on the same     *)
(* source, with the same search results, the same review decisions and no  *)
(* remote failure, issues no add call, reports found_tracks = 0 and leaves *)
(* the destination as the first run left it.                               *)
(***************************************************************************)
C37_SecondRunAddsNothing ==
  rerun.run = 2 =>
    /\ ~batch.issued
    /\ created = 0
    /\ playlists = rerun.first
    /\ result.returned => result.found_tracks = 0

\* The second run returned; the first had added an exact match and an
\* accepted pending match to the destination.
C37_SecondRunAfterAdds ==
  /\ rerun.run = 2
  /\ result.returned
  /\ result.match_stats.present
  /\ rerun.result.match_stats.exact > 0
  /\ rerun.result.match_stats.fuzzy_good + rerun.result.match_stats.fuzzy_medium
       + rerun.result.match_stats.fuzzy_bad > 0

(***************************************************************************)
(* C38.  The exact pass does not match on an empty string: a candidate is  *)
(* not EXACT through a field where the normalized text of the target is    *)
(* empty and that of the candidate is not, or the candidate's is missing   *)
(* or empty and that of the target is not.                                 *)
(***************************************************************************)
\* Exactly one of the two texts is empty.
OneEmpty(a, b) == (a = <<>>) # (b = <<>>)

\* The candidate of the list that the exact pass returned.
ExactCandidate ==
  match_call.cands[FirstMatch(match_call.track, match_call.cands, ExactMatch)]

C38_NoExactOnEmpty ==
  (match_return.returned /\ match_return.value.match_type = "EXACT") =>
    /\ ~OneEmpty(normalize(match_call.track.artist),
                 normalize(result_artist(ExactCandidate)))
    /\ ~OneEmpty(normalize(match_call.track.title),
                 normalize(ExactCandidate.name))

\* What the code keeps: for an EXACT result one of the two normalized artists
\* occurs in the other, and so for the titles, the empty text occurring in
\* every text.
C38_ExactIsSubstring ==
  (match_return.returned /\ match_return.value.match_type = "EXACT") =>
    /\ match_return.value.track = ExactCandidate.id
    /\ ExactMatch(match_call.track, ExactCandidate)
====
